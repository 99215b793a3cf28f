---------------------------- MODULE BinAAProofs ----------------------------
(***************************************************************************)
(* Proofs about the rounds of one Delphi instance, for every number of     *)
(* nodes, faults, checkpoints and rounds, every input and every crash.     *)
(*                                                                         *)
(* The invariant is a conjunction of parts, each about one thing; a step   *)
(* is summarised once (Moves), and each part is shown to survive what the  *)
(* summary says.                                                           *)
(***************************************************************************)
EXTENDS BinAA, FirstFew, SequenceTheorems

\* A round state whose values are in S and whose termination value is in T.
Slot(S) ==
    [val : S, echo1 : SUBSET Node, echo2 : SUBSET Node, sent1 : BOOLEAN, sent2 : BOOLEAN]

StateOf(S, T) ==
    {rs \in [slots : Seq(Slot(S)), echo1vals : SUBSET S, term : T \union {NoVal}] :
        /\ Len(rs.slots) <= 2
        /\ rs.slots = <<>> => rs = NoState
        /\ Len(rs.slots) = 2 => rs.slots[1].val # rs.slots[2].val}

Task ==
    [input : [Checkpoints -> {0, MaxInput}], round : -1 .. Rounds + 1,
     rs : [Checkpoints -> [0 .. Rounds -> StateOf(AnyVal, AnyVal)]],
     out : 0 .. 1, blocked : BOOLEAN, sent : {<<>>}]

Message ==
    [kind : {"ECHO1", "ECHO2"}, round : 0 .. Rounds,
     vals : UNION {[D -> AnyVal] : D \in SUBSET Checkpoints}]

TypeInv ==
    /\ node \in [Node -> Task]
    /\ link \in [Node -> [Node -> Seq(Message)]]
    /\ \A p \in Node : link[p][p] = <<>>
    /\ output \subseteq Node /\ crashed \subseteq Node

\* The messages of a that are on their way.
Flying(a) == UNION {{link[a][b][i] : i \in DOMAIN link[a][b]} : b \in Node}

\* A round that was begun is one the node has reached, and begins with a value.
BegunInv ==
    \A p \in Node, c \in Checkpoints, r \in 0 .. Rounds : Began(p, c, r) =>
        r <= node[p].round /\ StartVal(node[p], c, r) # NoVal

\* Whatever is counted, voted for or sent in a round is a value somebody began it with.
Between(S) == {v \in AnyVal : \E lo \in S, hi \in S : lo <= v /\ v <= hi}

ValidInv ==
    /\ \A p \in Node, c \in Checkpoints, r \in 0 .. Rounds :
          node[p].rs[c][r] \in StateOf(StartVals(r, c), Between(StartVals(r, c)))
    /\ \A a \in Node : \A m \in Flying(a) : \A c \in DOMAIN m.vals :
          m.vals[c] \in StartVals(m.round, c)

\* The values of round r are multiples of 2^(Rounds + 1 - r): two of them are so far
\* apart that their midpoint is neither.
Grid(r) == {v \in AnyVal : \E j \in AnyVal : v = j * 2 ^ (Rounds + 1 - r)}

GridInv ==
    /\ \A p \in Node, c \in Checkpoints, r \in 0 .. Rounds :
          node[p].rs[c][r] \in StateOf(Grid(r), Grid(r + 1))
    /\ \A a \in Node : \A m \in Flying(a) : \A c \in DOMAIN m.vals :
          m.vals[c] \in Grid(m.round)

\* A round ends by a quorum of ECHO2s, or half way between two votes of the node; it
\* votes on a quorum of ECHO1s.
Justified(rs) ==
    /\ Terminated(rs) =>
          \/ \E i \in DOMAIN rs.slots : rs.slots[i].val = rs.term
                                        /\ Cardinality(rs.slots[i].echo2) >= HighThreshold
          \/ Cardinality(rs.echo1vals) = 2 /\ rs.term = Midpoint(rs.echo1vals)
    /\ rs.echo1vals # {} =>
          \E i \in DOMAIN rs.slots : Cardinality(rs.slots[i].echo1) >= HighThreshold

JustInv == \A p \in Node, c \in Checkpoints, r \in 0 .. Rounds : Justified(node[p].rs[c][r])

\* Only nodes that joined are heard; who has left round 0 has ended the round before
\* the one it is in.
Joined == {q \in Node : node[q].round >= 0}

JoinedInv ==
    /\ \A p \in Node, c \in Checkpoints, r \in 0 .. Rounds :
          \A i \in DOMAIN node[p].rs[c][r].slots :
             node[p].rs[c][r].slots[i].echo1 \union node[p].rs[c][r].slots[i].echo2
                 \subseteq Joined
    /\ \A a \in Node : Flying(a) # {} => a \in Joined
    /\ \A p \in Node, c \in Checkpoints :
          node[p].round > 0 => Terminated(node[p].rs[c][node[p].round - 1])

\* A vote of round 0 is counted as, and on its way with, what its sender voted for.
VotesInv ==
    /\ \A p \in Node, c \in Checkpoints :
          \A i \in DOMAIN node[p].rs[c][0].slots :
             \A q \in node[p].rs[c][0].slots[i].echo2 :
                node[p].rs[c][0].slots[i].val \in node[q].rs[c][0].echo1vals
    /\ \A a \in Node : \A m \in Flying(a) : (m.kind = "ECHO2" /\ m.round = 0) =>
          \A c \in DOMAIN m.vals : m.vals[c] \in node[a].rs[c][0].echo1vals

\* In a round of two values v and w, a value v that at most f nodes begin with is only ever
\* heard from them, and nobody amplifies it or votes for it.
Loses(rs, v, w, G) ==
    /\ \A i \in DOMAIN rs.slots : rs.slots[i].val = v =>
          rs.slots[i].echo1 \subseteq G /\ rs.slots[i].echo2 = {}
    /\ rs.echo1vals \subseteq {w}
    /\ rs.term \in {w, NoVal}

LoneInv ==
    \A r \in 0 .. Rounds, c \in Checkpoints, v \in AnyVal, w \in AnyVal :
        (/\ v # w /\ StartVals(r, c) \subseteq {v, w}
         /\ Cardinality(Beginners(v, r, c)) <= NumFaults) =>
            /\ \A p \in Node : Loses(node[p].rs[c][r], v, w, Beginners(v, r, c))
            /\ \A a \in Node : \A m \in Flying(a) :
                  (m.round = r /\ c \in DOMAIN m.vals /\ m.vals[c] = v) =>
                      m.kind = "ECHO1" /\ a \in Beginners(v, r, c)

IInv ==
    /\ TypeInv
    /\ BegunInv
    /\ ValidInv
    /\ GridInv
    /\ JustInv
    /\ JoinedInv
    /\ VotesInv
    /\ LoneInv
-----------------------------------------------------------------------------
(* What a checkpoint makes of one ECHO1 or ECHO2.                          *)

\* E1 and E2 are counted for v: in its slot, which may be new.
Grows(rs, new, v, E1, E2) ==
    /\ DOMAIN rs.slots \subseteq DOMAIN new.slots
    /\ \A i \in DOMAIN new.slots :
          IF i \in DOMAIN rs.slots
          THEN /\ new.slots[i].val = rs.slots[i].val
               /\ \/ /\ new.slots[i].echo1 = rs.slots[i].echo1
                     /\ new.slots[i].echo2 = rs.slots[i].echo2
                  \/ /\ i = SlotOf(rs, v)
                     /\ new.slots[i].echo1 = rs.slots[i].echo1 \union E1
                     /\ new.slots[i].echo2 = rs.slots[i].echo2 \union E2
          ELSE /\ new.slots[i].val = v
               /\ new.slots[i].echo1 = E1 /\ new.slots[i].echo2 = E2
               /\ i = 2 => v # rs.slots[1].val

EchoDoes(rs, v, q, out) ==
    /\ Grows(rs, out.rs, v, {q}, {})
    /\ \/ /\ out.rs.echo1vals = rs.echo1vals /\ out.rs.term = rs.term
          /\ out.echo2 = NoVal
          /\ \/ out.echo1 = NoVal
             \/ /\ out.echo1 = v /\ SlotOf(rs, v) \in DOMAIN out.rs.slots
                /\ Cardinality(out.rs.slots[SlotOf(rs, v)].echo1) >= MinThreshold
       \/ /\ ~Terminated(rs) /\ out.echo1 = NoVal /\ out.echo2 = v
          /\ out.rs.echo1vals = rs.echo1vals \union {v}
          /\ out.rs.term = IF Cardinality(out.rs.echo1vals) = 2
                           THEN Midpoint(out.rs.echo1vals) ELSE NoVal
          /\ SlotOf(rs, v) \in DOMAIN out.rs.slots
          /\ Cardinality(out.rs.slots[SlotOf(rs, v)].echo1) >= HighThreshold

Echo2Does(rs, v, q, new) ==
    /\ Grows(rs, new, v, {}, {q})
    /\ new.echo1vals = rs.echo1vals
    /\ \/ new.term = rs.term
       \/ \E i \in DOMAIN new.slots :
             new.term = new.slots[i].val /\ Cardinality(new.slots[i].echo2) >= HighThreshold

\* T holds the values of S and the midpoints of any two.
Spans(T, S) == S \subseteq T /\ \A x \in S, y \in S : x < y => (x + y) \div 2 \in T

LEMMA MidpointOfTwo ==
    ASSUME NEW vals \in SUBSET Int, IsFiniteSet(vals), Cardinality(vals) = 2
    PROVE  \E x \in vals, y \in vals :
              x < y /\ vals = {x, y} /\ Midpoint(vals) = (x + y) \div 2
<1>1. vals # {}
    BY FS_EmptySet
<1>2. PICK a \in vals : TRUE
    BY <1>1
<1>3. IsFiniteSet(vals \ {a}) /\ Cardinality(vals \ {a}) = 1
    BY <1>2, FS_RemoveElement
<1>4. PICK b : vals \ {a} = {b}
    BY <1>3, FS_Singleton
<1>5. vals = {a, b} /\ a # b /\ b \in vals
    BY <1>2, <1>4
<1>6. ASSUME NEW x \in vals, NEW y \in vals, x < y
      PROVE  vals = {x, y} /\ Midpoint(vals) = (x + y) \div 2
    <2>1. vals = {x, y}
        BY <1>5, <1>6
    <2> DEFINE lo == CHOOSE z \in vals : \A u \in vals : z <= u
               hi == CHOOSE z \in vals : \A u \in vals : z >= u
    <2>2. lo = x /\ hi = y
        BY <2>1, <1>6
    <2> QED
        BY <2>1, <2>2 DEF Midpoint
<1>7. a < b \/ b < a
    BY <1>5
<1> QED
    BY <1>5, <1>6, <1>7

\* The largest value is twice a natural number, and values are finitely many.
LEMMA ValuesFinite ==
    /\ MaxInput \in Nat /\ MaxInput = 2 * 2 ^ Rounds /\ 2 ^ Rounds \in Nat \ {0}
    /\ IsFiniteSet(AnyVal) /\ AnyVal \subseteq Nat
<1>1. Rounds \in 0 .. Rounds
    BY BinAAAssumption
<1>2. MaxInput \in Nat /\ MaxInput = 2 * 2 ^ Rounds /\ 2 ^ Rounds \in Nat \ {0}
    BY <1>1, PowersOfTwo DEF MaxInput
<1> HIDE DEF MaxInput
<1>3. IsFiniteSet(0 .. MaxInput)
    BY <1>2, FS_Interval
<1> QED
    BY <1>2, <1>3 DEF AnyVal

\* What is in a round state that something has been heard in.
LEMMA StateShape ==
    ASSUME NEW S, NEW T, NEW rs \in StateOf(S, T)
    PROVE  /\ rs \in [slots : Seq(Slot(S)), echo1vals : SUBSET S, term : T \union {NoVal}]
           /\ rs.slots \in Seq(Slot(S)) /\ rs.echo1vals \in SUBSET S
           /\ rs.term \in T \union {NoVal}
           /\ DOMAIN rs.slots \in {{}, {1}, {1, 2}} /\ DOMAIN rs.slots = 1 .. Len(rs.slots)
           /\ rs # NoState => rs.slots # <<>> /\ 1 \in DOMAIN rs.slots
           /\ Len(rs.slots) = 2 => rs.slots[1].val # rs.slots[2].val
           /\ \A i \in DOMAIN rs.slots : rs.slots[i] \in Slot(S)
<1>1. /\ rs.slots \in Seq(Slot(S)) /\ Len(rs.slots) <= 2
      /\ rs # NoState => rs.slots # <<>>
    BY DEF StateOf
<1>2. /\ Len(rs.slots) \in Nat /\ DOMAIN rs.slots = 1 .. Len(rs.slots)
      /\ \A i \in DOMAIN rs.slots : rs.slots[i] \in Slot(S)
    BY <1>1, LenProperties
<1>3. rs # NoState => Len(rs.slots) \in Nat \ {0}
    BY <1>1, EmptySeq
<1>4. /\ rs \in [slots : Seq(Slot(S)), echo1vals : SUBSET S, term : T \union {NoVal}]
      /\ Len(rs.slots) = 2 => rs.slots[1].val # rs.slots[2].val
    BY DEF StateOf
<1>6. DOMAIN rs.slots \in {{}, {1}, {1, 2}} /\ (rs # NoState => 1 \in DOMAIN rs.slots)
  <2> DEFINE n == Len(rs.slots)
  <2>1. n \in Nat /\ n <= 2 /\ DOMAIN rs.slots = 1 .. n /\ (rs # NoState => n # 0)
      BY <1>1, <1>2, <1>3
  <2> HIDE DEF n
  <2>2. n = 0 \/ n = 1 \/ n = 2
      BY <2>1
  <2>3. 1 .. 0 = {} /\ 1 .. 1 = {1} /\ 1 .. 2 = {1, 2}
      OBVIOUS
  <2> QED
      BY <2>1, <2>2, <2>3
<1>7. rs.echo1vals \in SUBSET S /\ rs.term \in T \union {NoVal}
    BY <1>4
<1> QED
    BY <1>1, <1>2, <1>4, <1>6, <1>7

\* A round state ends with no value, or one of those it may end with.
LEMMA TermIn ==
    ASSUME NEW S, NEW T, NEW rs \in StateOf(S, T)
    PROVE  rs.term \in T \union {NoVal}
<1>1. rs \in [slots : Seq(Slot(S)), echo1vals : SUBSET S, term : T \union {NoVal}]
    BY DEF StateOf
<1> QED
    BY <1>1

LEMMA SlotsOf ==
    ASSUME NEW S, NEW T, NEW rs \in StateOf(S, T), rs # NoState
    PROVE  /\ Len(rs.slots) = 1 \/ Len(rs.slots) = 2
           /\ DOMAIN rs.slots = 1 .. Len(rs.slots)
<1> DEFINE n == Len(rs.slots)
<1>1. n \in Nat /\ n <= 2 /\ n # 0 /\ DOMAIN rs.slots = 1 .. n
  <2>1. rs.slots \in Seq(Slot(S)) /\ n <= 2 /\ rs.slots # <<>>
      BY DEF StateOf
  <2> QED
      BY <2>1, EmptySeq, LenProperties
<1> HIDE DEF n
<1>2. n = 1 \/ n = 2
    BY <1>1
<1> QED
    BY <1>1, <1>2 DEF n

\* Ways to make a round state from another: a slot that counts more, a second slot, and
\* the first slot of all.
Fields(S, T) == [slots : Seq(Slot(S)), echo1vals : SUBSET S, term : T \union {NoVal}]

LEMMA SlotChanged ==
    ASSUME NEW S, NEW T, NEW rs \in StateOf(S, T), rs # NoState,
           NEW new \in Fields(S, T), DOMAIN new.slots = DOMAIN rs.slots,
           \A j \in DOMAIN rs.slots : new.slots[j].val = rs.slots[j].val
    PROVE  new \in StateOf(S, T) /\ new.slots # <<>>
<1> DEFINE n == Len(rs.slots)
           m == Len(new.slots)
<1>1. /\ n = 1 \/ n = 2
      /\ n = 2 => rs.slots[1].val # rs.slots[2].val
      /\ DOMAIN rs.slots = 1 .. n /\ DOMAIN new.slots = 1 .. m /\ m \in Nat
    BY SlotsOf, StateShape, LenProperties DEF Fields
<1>2. 1 \in DOMAIN rs.slots /\ (n = 2 => 2 \in DOMAIN rs.slots)
    BY <1>1
<1>3. m = n
  <2> HIDE DEF n, m
  <2> QED
      BY <1>1
<1>4. new.slots # <<>>
    BY <1>1, <1>2
<1>5. m <= 2 /\ (m = 2 => new.slots[1].val # new.slots[2].val)
  <2> HIDE DEF n, m
  <2> QED
      BY <1>1, <1>2, <1>3
<1> QED
    BY <1>4, <1>5 DEF StateOf, Fields

LEMMA SlotAdded ==
    ASSUME NEW S, NEW T, NEW rs \in StateOf(S, T), DOMAIN rs.slots = {1},
           NEW new \in Fields(S, T), DOMAIN new.slots = {1, 2},
           new.slots[2].val # new.slots[1].val
    PROVE  new \in StateOf(S, T) /\ new.slots # <<>>
<1> DEFINE n == Len(new.slots)
<1>1. n \in Nat /\ {1, 2} = 1 .. n
    BY LenProperties DEF Fields
<1>2. new.slots # <<>>
    OBVIOUS
<1>3. n <= 2
  <2> HIDE DEF n
  <2>1. n \in 1 .. n
      BY <1>1
  <2> QED
      BY <1>1, <2>1
<1> QED
    BY <1>2, <1>3 DEF StateOf, Fields

LEMMA FirstHeard ==
    ASSUME NEW S, NEW T, NEW s \in Slot(S), NEW new \in Fields(S, T), new.slots = <<s>>
    PROVE  /\ new \in StateOf(S, T) /\ new.slots # <<>>
           /\ DOMAIN new.slots = {1} /\ new.slots[1] = s
<1>1. /\ new.slots \in Seq(Slot(S)) /\ Len(new.slots) = 1 /\ DOMAIN new.slots = {1}
      /\ new.slots[1] = s /\ new.slots # <<>>
    OBVIOUS
<1>2. Len(new.slots) <= 2 /\ Len(new.slots) # 2
    BY <1>1
<1> QED
    BY <1>1, <1>2 DEF StateOf, Fields

LEMMA Replaced ==
    ASSUME NEW S, NEW slots \in Seq(Slot(S)), NEW i \in DOMAIN slots, NEW s \in Slot(S)
    PROVE  /\ [slots EXCEPT ![i] = s] \in Seq(Slot(S))
           /\ DOMAIN [slots EXCEPT ![i] = s] = DOMAIN slots
           /\ [slots EXCEPT ![i] = s][i] = s
           /\ \A j \in DOMAIN slots : j # i => [slots EXCEPT ![i] = s][j] = slots[j]
<1>1. DOMAIN slots = 1 .. Len(slots)
    BY LenProperties
<1> QED
    BY <1>1, ExceptSeq

\* The two operations that hear a message.
LEMMA HearEchoDoes ==
    ASSUME NEW S \in SUBSET AnyVal, NEW T, Spans(T, S), NEW rs \in StateOf(S, T),
           NEW v \in S, NEW q \in Node, NEW out,
           out = HearEcho(rs, v, q, MinThreshold, HighThreshold)
    PROVE  /\ out.rs \in StateOf(S, T) /\ out.rs.slots # <<>>
           /\ EchoDoes(rs, v, q, out)
<1> DEFINE i == SlotOf(rs, v)
           n == Len(rs.slots)
           s == [rs.slots[i] EXCEPT !.echo1 = @ \union {q}]
           E == rs.echo1vals \union {v}
           first == NewSlot(v, {q}, {})
<1>0. first \in Slot(S) /\ first.val = v /\ first.echo1 = {q} /\ first.echo2 = {}
    BY DEF NewSlot, Slot
<1>1. CASE rs = NoState
  <2>1. /\ out.rs.slots = <<first>> /\ out.echo1 = NoVal /\ out.echo2 = NoVal
        /\ out.rs = [slots |-> <<first>>, echo1vals |-> {}, term |-> NoVal]
        /\ out.rs.echo1vals = {} /\ out.rs.term = NoVal
      BY <1>1 DEF HearEcho, NewWithEcho
  <2> HIDE DEF first
  <2>5. <<first>> \in Seq(Slot(S))
      BY <1>0
  <2>6. out.rs \in Fields(S, T)
      BY <2>1, <2>5 DEF Fields
  <2>2. /\ out.rs \in StateOf(S, T) /\ out.rs.slots # <<>>
        /\ DOMAIN out.rs.slots = {1} /\ out.rs.slots[1] = first
      BY <1>0, <2>1, <2>6, FirstHeard
  <2>3. DOMAIN rs.slots = {} /\ rs.echo1vals = {} /\ rs.term = NoVal
      BY <1>1 DEF NoState
  <2>4. Grows(rs, out.rs, v, {q}, {})
      BY <1>0, <2>2, <2>3 DEF Grows
  <2> QED
      BY <2>1, <2>2, <2>3, <2>4 DEF EchoDoes
<1>2. CASE rs # NoState /\ Terminated(rs)
  <2>1. out.rs = rs /\ out.echo1 = NoVal /\ out.echo2 = NoVal
      BY <1>2 DEF HearEcho, AddEcho
  <2>2. rs.slots # <<>>
      BY <1>2, StateShape
  <2>3. Grows(rs, rs, v, {q}, {})
      BY DEF Grows
  <2> QED
      BY <2>1, <2>2, <2>3 DEF EchoDoes
<1>3. CASE rs # NoState /\ ~Terminated(rs)
  <2>1. out = AddEcho(rs, v, q, MinThreshold, HighThreshold)
      BY <1>3 DEF HearEcho
  <2>2. rs.term = NoVal
      BY <1>3 DEF Terminated
  <2>3. /\ rs \in Fields(S, T)
        /\ \A j \in DOMAIN rs.slots : rs.slots[j] \in Slot(S)
        /\ n = 1 \/ n = 2
        /\ DOMAIN rs.slots = 1 .. n
      BY <1>3, StateShape, SlotsOf DEF Fields
  <2>4. CASE i > n
    <3>0. ~(i <= n)
        BY <2>3, <2>4 DEF SlotOf
    <3>1. n = 1 /\ i = 2
        BY <2>3, <2>4 DEF SlotOf
    <3>2. /\ out.rs = [rs EXCEPT !.slots = Append(@, first)]
          /\ out.echo1 = NoVal /\ out.echo2 = NoVal
        BY <1>3, <2>1, <2>4, <3>0 DEF AddEcho
    <3>3. v # rs.slots[1].val
        BY <3>1 DEF SlotOf
    <3> HIDE DEF first
    <3>4. /\ out.rs.slots = Append(rs.slots, first) /\ out.rs.echo1vals = rs.echo1vals
          /\ out.rs.term = rs.term
        BY <2>3, <3>2 DEF Fields
    <3>5. /\ Append(rs.slots, first) \in Seq(Slot(S)) /\ Len(Append(rs.slots, first)) = 2
          /\ Append(rs.slots, first)[1] = rs.slots[1] /\ Append(rs.slots, first)[2] = first
      <4>1. rs.slots \in Seq(Slot(S))
          BY <2>3 DEF Fields
      <4>2. /\ Append(rs.slots, first) \in Seq(Slot(S))
            /\ Len(Append(rs.slots, first)) = n + 1
            /\ \A j \in 1 .. n : Append(rs.slots, first)[j] = rs.slots[j]
            /\ Append(rs.slots, first)[n + 1] = first
          BY <1>0, <4>1, AppendProperties
      <4> QED
          BY <3>1, <4>2
    <3>6. out.rs \in Fields(S, T)
        BY <2>3, <3>2, <3>5 DEF Fields
    <3>9. DOMAIN rs.slots = {1} /\ DOMAIN out.rs.slots = {1, 2}
      <4>1. DOMAIN rs.slots = 1 .. 1 /\ DOMAIN out.rs.slots = 1 .. 2
          BY <2>3, <3>1, <3>4, <3>5, LenProperties
      <4>2. 1 .. 1 = {1} /\ 1 .. 2 = {1, 2}
          OBVIOUS
      <4> QED
          BY <4>1, <4>2
    <3>10. out.rs.slots[1] = rs.slots[1] /\ out.rs.slots[2] = first
        BY <3>4, <3>5
    <3>7. out.rs \in StateOf(S, T) /\ out.rs.slots # <<>>
        BY <1>0, <3>3, <3>6, <3>9, <3>10, SlotAdded
    <3>8. Grows(rs, out.rs, v, {q}, {})
        BY <1>0, <3>3, <3>9, <3>10 DEF Grows
    <3> QED
        BY <3>2, <3>4, <3>7, <3>8 DEF EchoDoes
  <2>5. ASSUME i \in DOMAIN rs.slots, NEW t \in Slot(S),
               t.val = rs.slots[i].val, t.echo1 = rs.slots[i].echo1 \union {q},
               t.echo2 = rs.slots[i].echo2, out.rs \in Fields(S, T),
               out.rs.slots = [rs.slots EXCEPT ![i] = t]
        PROVE  /\ out.rs \in StateOf(S, T) /\ out.rs.slots # <<>>
               /\ Grows(rs, out.rs, v, {q}, {})
               /\ SlotOf(rs, v) \in DOMAIN out.rs.slots
               /\ out.rs.slots[SlotOf(rs, v)].echo1 = t.echo1
    <3>1. /\ DOMAIN out.rs.slots = DOMAIN rs.slots /\ out.rs.slots[i] = t
          /\ \A j \in DOMAIN rs.slots : j # i => out.rs.slots[j] = rs.slots[j]
        BY <2>3, <2>5, Replaced DEF Fields
    <3>2. \A j \in DOMAIN rs.slots : out.rs.slots[j].val = rs.slots[j].val
        BY <2>5, <3>1
    <3>3. out.rs \in StateOf(S, T) /\ out.rs.slots # <<>>
        BY <1>3, <2>5, <3>1, <3>2, SlotChanged
    <3>4. Grows(rs, out.rs, v, {q}, {})
        BY <2>5, <3>1, <3>2 DEF Grows
    <3> QED
        BY <2>5, <3>1, <3>3, <3>4
  <2>6. CASE i \in DOMAIN rs.slots
    <3>1. /\ s \in Slot(S) /\ s.val = rs.slots[i].val
          /\ s.echo1 = rs.slots[i].echo1 \union {q} /\ s.echo2 = rs.slots[i].echo2
        BY <2>3, <2>6 DEF Slot
    <3>2. i <= n /\ ~(i > n)
        BY <2>3, <2>6
    <3>3. CASE Cardinality(s.echo1) >= MinThreshold /\ ~s.sent1
      <4> DEFINE t == [s EXCEPT !.sent1 = TRUE]
      <4>1. t \in Slot(S) /\ t.val = s.val /\ t.echo1 = s.echo1 /\ t.echo2 = s.echo2
          BY <3>1 DEF Slot
      <4>2. /\ out.rs = [rs EXCEPT !.slots[i] = t]
            /\ out.echo1 = v /\ out.echo2 = NoVal
          BY <1>3, <2>1, <3>2, <3>3 DEF AddEcho
      <4> HIDE DEF t
      <4>3. /\ out.rs.slots = [rs.slots EXCEPT ![i] = t] /\ out.rs.term = rs.term
            /\ out.rs.echo1vals = rs.echo1vals
          BY <2>3, <4>2 DEF Fields
      <4>4. [rs.slots EXCEPT ![i] = t] \in Seq(Slot(S))
          BY <2>3, <2>6, <4>1, Replaced DEF Fields
      <4>5. out.rs \in Fields(S, T)
          BY <2>3, <4>2, <4>4 DEF Fields
      <4>6. /\ out.rs \in StateOf(S, T) /\ out.rs.slots # <<>>
            /\ Grows(rs, out.rs, v, {q}, {})
            /\ SlotOf(rs, v) \in DOMAIN out.rs.slots
            /\ out.rs.slots[SlotOf(rs, v)].echo1 = s.echo1
          BY <2>5, <2>6, <3>1, <4>1, <4>3, <4>5
      <4> QED
          BY <3>3, <4>2, <4>3, <4>6 DEF EchoDoes
    <3>4. CASE ~(Cardinality(s.echo1) >= MinThreshold /\ ~s.sent1)
               /\ Cardinality(s.echo1) >= HighThreshold /\ ~s.sent2
      <4> DEFINE t == [s EXCEPT !.sent2 = TRUE]
                 u == IF Cardinality(E) = 2 THEN Midpoint(E) ELSE rs.term
      <4>1. t \in Slot(S) /\ t.val = s.val /\ t.echo1 = s.echo1 /\ t.echo2 = s.echo2
          BY <3>1 DEF Slot
      <4>2. /\ out.rs = [slots |-> [rs.slots EXCEPT ![i] = t], echo1vals |-> E, term |-> u]
            /\ out.echo1 = NoVal /\ out.echo2 = v
          BY <1>3, <2>1, <3>2, <3>4 DEF AddEcho
      <4>3. E \in SUBSET S
          BY <2>3 DEF Fields
      <4>4. u \in T \union {NoVal} /\ u = IF Cardinality(E) = 2 THEN Midpoint(E) ELSE NoVal
        <5>1. E \in SUBSET Int /\ IsFiniteSet(E)
          <6>1. IsFiniteSet(AnyVal) /\ \A z \in AnyVal : z \in Int
              BY ValuesFinite
          <6>2. E \subseteq AnyVal
              BY <4>3
          <6> HIDE DEF E
          <6>3. IsFiniteSet(E)
              BY <6>1, <6>2, FS_Subset
          <6> QED
              BY <6>1, <6>2, <6>3
        <5>2. CASE Cardinality(E) = 2
          <6>1. PICK x \in E, y \in E : x < y /\ Midpoint(E) = (x + y) \div 2
              BY <5>1, <5>2, MidpointOfTwo
          <6>2. (x + y) \div 2 \in T
              BY <4>3, <6>1 DEF Spans
          <6> QED
              BY <5>2, <6>1, <6>2
        <5>3. CASE Cardinality(E) # 2
            BY <2>2, <5>3
        <5> QED
            BY <5>2, <5>3
      <4>5. E = rs.echo1vals \union {v}
          OBVIOUS
      <4> HIDE DEF t, u, E
      <4>6. /\ out.rs.slots = [rs.slots EXCEPT ![i] = t] /\ out.rs.term = u
            /\ out.rs.echo1vals = E
          BY <4>2
      <4>7. [rs.slots EXCEPT ![i] = t] \in Seq(Slot(S))
          BY <2>3, <2>6, <4>1, Replaced DEF Fields
      <4>8. out.rs \in Fields(S, T)
          BY <4>2, <4>3, <4>4, <4>7 DEF Fields
      <4>9. /\ out.rs \in StateOf(S, T) /\ out.rs.slots # <<>>
            /\ Grows(rs, out.rs, v, {q}, {})
            /\ SlotOf(rs, v) \in DOMAIN out.rs.slots
            /\ out.rs.slots[SlotOf(rs, v)].echo1 = s.echo1
          BY <2>5, <2>6, <3>1, <4>1, <4>6, <4>8
      <4> QED
          BY <1>3, <3>4, <4>2, <4>4, <4>5, <4>6, <4>9 DEF EchoDoes
    <3>5. CASE /\ ~(Cardinality(s.echo1) >= MinThreshold /\ ~s.sent1)
               /\ ~(Cardinality(s.echo1) >= HighThreshold /\ ~s.sent2)
      <4>1. /\ out.rs = [rs EXCEPT !.slots[i] = s]
            /\ out.echo1 = NoVal /\ out.echo2 = NoVal
          BY <1>3, <2>1, <3>2, <3>5 DEF AddEcho
      <4> HIDE DEF s
      <4>2. /\ out.rs.slots = [rs.slots EXCEPT ![i] = s] /\ out.rs.term = rs.term
            /\ out.rs.echo1vals = rs.echo1vals
          BY <2>3, <4>1 DEF Fields
      <4>3. [rs.slots EXCEPT ![i] = s] \in Seq(Slot(S))
          BY <2>3, <2>6, <3>1, Replaced DEF Fields
      <4>4. out.rs \in Fields(S, T)
          BY <2>3, <4>1, <4>3 DEF Fields
      <4>5. /\ out.rs \in StateOf(S, T) /\ out.rs.slots # <<>>
            /\ Grows(rs, out.rs, v, {q}, {})
          BY <2>5, <2>6, <3>1, <4>2, <4>4
      <4> QED
          BY <4>1, <4>2, <4>5 DEF EchoDoes
    <3> QED
        BY <3>3, <3>4, <3>5
  <2>7. i > n \/ i \in DOMAIN rs.slots
      BY <2>3 DEF SlotOf
  <2> QED
      BY <2>4, <2>6, <2>7
<1> QED
    BY <1>1, <1>2, <1>3

LEMMA HearEcho2Does ==
    ASSUME NEW S \in SUBSET AnyVal, NEW T, Spans(T, S), NEW rs \in StateOf(S, T),
           NEW v \in S, NEW q \in Node, NEW new,
           new = HearEcho2(rs, v, q, HighThreshold)
    PROVE  new \in StateOf(S, T) /\ new.slots # <<>> /\ Echo2Does(rs, v, q, new)
<1> DEFINE i == SlotOf(rs, v)
           n == Len(rs.slots)
           s == [rs.slots[i] EXCEPT !.echo2 = @ \union {q}]
           first == NewSlot(v, {}, {q})
<1>0. first \in Slot(S) /\ first.val = v /\ first.echo1 = {} /\ first.echo2 = {q}
    BY DEF NewSlot, Slot
<1>1. CASE rs = NoState
  <2>1. new = [slots |-> <<first>>, echo1vals |-> {}, term |-> NoVal]
      BY <1>1 DEF HearEcho2, NewWithEcho2
  <2> HIDE DEF first
  <2>2. new \in Fields(S, T)
    <3>1. <<first>> \in Seq(Slot(S))
        BY <1>0
    <3> QED
        BY <2>1, <3>1 DEF Fields
  <2>3. new.slots = <<first>> /\ new.echo1vals = {} /\ new.term = NoVal
      BY <2>1
  <2>4. /\ new \in StateOf(S, T) /\ new.slots # <<>>
        /\ DOMAIN new.slots = {1} /\ new.slots[1] = first
      BY <1>0, <2>2, <2>3, FirstHeard
  <2>5. DOMAIN rs.slots = {} /\ rs.echo1vals = {} /\ rs.term = NoVal
      BY <1>1 DEF NoState
  <2>6. Grows(rs, new, v, {}, {q})
      BY <1>0, <2>4, <2>5 DEF Grows
  <2> QED
      BY <2>3, <2>4, <2>5, <2>6 DEF Echo2Does
<1>2. CASE rs # NoState
  <2>1. new = AddEcho2(rs, v, q, HighThreshold)
      BY <1>2 DEF HearEcho2
  <2>2. /\ rs \in Fields(S, T)
        /\ \A j \in DOMAIN rs.slots : rs.slots[j] \in Slot(S)
        /\ n = 1 \/ n = 2
        /\ DOMAIN rs.slots = 1 .. n
      BY <1>2, StateShape, SlotsOf DEF Fields
  <2>3. CASE i > n
    <3>1. new = [rs EXCEPT !.slots = Append(@, first)]
        BY <2>1, <2>3 DEF AddEcho2
    <3>2. n = 1 /\ i = 2
      <4>1. i = 1 \/ i = 2
          BY DEF SlotOf
      <4> HIDE DEF i, n
      <4> QED
          BY <2>2, <2>3, <4>1
    <3>3. v # rs.slots[1].val
        BY <3>2 DEF SlotOf
    <3> HIDE DEF first
    <3>4. /\ new.slots = Append(rs.slots, first) /\ new.echo1vals = rs.echo1vals
          /\ new.term = rs.term
        BY <2>2, <3>1 DEF Fields
    <3>5. /\ Append(rs.slots, first) \in Seq(Slot(S)) /\ Len(Append(rs.slots, first)) = 2
          /\ Append(rs.slots, first)[1] = rs.slots[1] /\ Append(rs.slots, first)[2] = first
      <4>1. rs.slots \in Seq(Slot(S))
          BY <2>2 DEF Fields
      <4>2. /\ Append(rs.slots, first) \in Seq(Slot(S))
            /\ Len(Append(rs.slots, first)) = n + 1
            /\ \A j \in 1 .. n : Append(rs.slots, first)[j] = rs.slots[j]
            /\ Append(rs.slots, first)[n + 1] = first
          BY <1>0, <4>1, AppendProperties
      <4> QED
          BY <3>2, <4>2
    <3>6. new \in Fields(S, T)
        BY <2>2, <3>1, <3>5 DEF Fields
    <3>7. DOMAIN rs.slots = {1} /\ DOMAIN new.slots = {1, 2}
      <4>1. DOMAIN rs.slots = 1 .. 1 /\ DOMAIN new.slots = 1 .. 2
          BY <2>2, <3>2, <3>4, <3>5, LenProperties
      <4>2. 1 .. 1 = {1} /\ 1 .. 2 = {1, 2}
          OBVIOUS
      <4> QED
          BY <4>1, <4>2
    <3>8. new.slots[1] = rs.slots[1] /\ new.slots[2] = first
        BY <3>4, <3>5
    <3>9. new \in StateOf(S, T) /\ new.slots # <<>>
        BY <1>0, <3>3, <3>6, <3>7, <3>8, SlotAdded
    <3>10. Grows(rs, new, v, {}, {q})
        BY <1>0, <3>3, <3>7, <3>8 DEF Grows
    <3> QED
        BY <3>4, <3>9, <3>10 DEF Echo2Does
  <2>4. CASE i \in DOMAIN rs.slots
    <3> DEFINE u == IF Cardinality(s.echo2) >= HighThreshold THEN s.val ELSE rs.term
    <3>1. ~(i > n)
        BY <2>2, <2>4
    <3>2. /\ s \in Slot(S) /\ s.val = rs.slots[i].val /\ s.echo1 = rs.slots[i].echo1
          /\ s.echo2 = rs.slots[i].echo2 \union {q} /\ s.val \in S
        BY <2>2, <2>4 DEF Slot
    <3>3. new = [rs EXCEPT !.slots[i] = s, !.term = u]
        BY <2>1, <3>1 DEF AddEcho2
    <3>4. u \in T \union {NoVal}
        BY <2>2, <3>2 DEF Fields, Spans
    <3>5. u = rs.term \/ (Cardinality(s.echo2) >= HighThreshold /\ u = s.val)
        OBVIOUS
    <3> HIDE DEF s, u
    <3>6. /\ new.slots = [rs.slots EXCEPT ![i] = s] /\ new.term = u
          /\ new.echo1vals = rs.echo1vals
        BY <2>2, <3>3 DEF Fields
    <3>7. [rs.slots EXCEPT ![i] = s] \in Seq(Slot(S))
        BY <2>2, <2>4, <3>2, Replaced DEF Fields
    <3>8. new \in Fields(S, T)
        BY <2>2, <3>3, <3>4, <3>7 DEF Fields
    <3>9. /\ DOMAIN new.slots = DOMAIN rs.slots /\ new.slots[i] = s
          /\ \A j \in DOMAIN rs.slots : j # i => new.slots[j] = rs.slots[j]
        BY <2>2, <2>4, <3>2, <3>6, Replaced DEF Fields
    <3>10. \A j \in DOMAIN rs.slots : new.slots[j].val = rs.slots[j].val
        BY <3>2, <3>9
    <3>11. new \in StateOf(S, T) /\ new.slots # <<>>
        BY <1>2, <3>8, <3>9, <3>10, SlotChanged
    <3>12. Grows(rs, new, v, {}, {q})
        BY <3>2, <3>9, <3>10 DEF Grows
    <3>13. \/ new.term = rs.term
           \/ \E j \in DOMAIN new.slots :
                 /\ new.term = new.slots[j].val
                 /\ Cardinality(new.slots[j].echo2) >= HighThreshold
        BY <2>4, <3>5, <3>6, <3>9
    <3> QED
        BY <3>6, <3>11, <3>12, <3>13 DEF Echo2Does
  <2>5. i > n \/ i \in DOMAIN rs.slots
      BY <2>2 DEF SlotOf
  <2> QED
      BY <2>3, <2>4, <2>5
<1> QED
    BY <1>1, <1>2

-----------------------------------------------------------------------------
(* What a node makes of a message.                                         *)

\* A task in the middle of a step, with messages of Z to send.
Vals == UNION {[D -> AnyVal] : D \in SUBSET Checkpoints}
States == [Checkpoints -> [0 .. Rounds -> StateOf(AnyVal, AnyVal)]]

TaskSending(Z) ==
    [input : [Checkpoints -> {0, MaxInput}], round : -1 .. Rounds + 1, rs : States,
     out : 0 .. 1, blocked : BOOLEAN, sent : Seq(Z)]

\* Only the round states and what is sent differ.
SameTask(nd, new) ==
    /\ new.input = nd.input /\ new.round = nd.round
    /\ new.out = nd.out /\ new.blocked = nd.blocked

LEMMA SpansValues == Spans(AnyVal, AnyVal)
<1>1. MaxInput \in Nat
    BY ValuesFinite
<1> HIDE DEF MaxInput
<1>2. ASSUME NEW x \in 0 .. MaxInput, NEW y \in 0 .. MaxInput, x < y
      PROVE  (x + y) \div 2 \in 0 .. MaxInput
    BY <1>1, <1>2
<1> QED
    BY <1>2 DEF Spans, AnyVal

LEMMA ValsShape ==
    ASSUME NEW vals \in Vals
    PROVE  /\ DOMAIN vals \subseteq Checkpoints /\ \A c \in DOMAIN vals : vals[c] \in AnyVal
    BY DEF Vals

LEMMA MessageShape ==
    ASSUME NEW m \in Message
    PROVE  /\ m.vals \in Vals /\ m.round \in 0 .. Rounds
           /\ DOMAIN m.vals \in SUBSET Checkpoints /\ \A c \in DOMAIN m.vals : m.vals[c] \in AnyVal
<1>1. m.vals \in Vals /\ m.round \in 0 .. Rounds
    BY DEF Message, Vals
<1> QED
    BY <1>1, ValsShape

LEMMA TaskShape ==
    ASSUME NEW Z, NEW nd \in TaskSending(Z)
    PROVE  /\ nd.rs \in States
           /\ \A c \in Checkpoints, k \in 0 .. Rounds :
                 /\ nd.rs[c][k] \in StateOf(AnyVal, AnyVal)
                 /\ nd.rs[c][k].term \in AnyVal \union {NoVal}
<1>1. nd.rs \in States
    BY DEF TaskSending
<1>2. \A c \in Checkpoints, k \in 0 .. Rounds : nd.rs[c][k] \in StateOf(AnyVal, AnyVal)
    BY <1>1 DEF States
<1> QED
    BY <1>1, <1>2, StateShape

LEMMA AddEchoesDoes ==
    ASSUME NEW Z, NEW nd \in TaskSending(Z), NEW m \in Message, NEW q \in Node,
           NEW res, res = AddEchoes(nd, m, q)
    PROVE  /\ res.nd \in TaskSending(Z) /\ SameTask(nd, res.nd) /\ res.nd.sent = nd.sent
           /\ \A c \in DOMAIN m.vals :
                 res.nd.rs[c][m.round] = CpEcho(nd, c, m.round, m.vals[c], q).rs
           /\ \A c \in Checkpoints \ DOMAIN m.vals :
                 res.nd.rs[c][m.round] = nd.rs[c][m.round]
           /\ \A c \in Checkpoints, r \in 0 .. Rounds :
                 r # m.round => res.nd.rs[c][r] = nd.rs[c][r]
           /\ res.echo1 \in Vals /\ res.echo2 \in Vals
           /\ \A c \in DOMAIN res.echo1 :
                 /\ c \in DOMAIN m.vals
                 /\ res.echo1[c] = CpEcho(nd, c, m.round, m.vals[c], q).echo1
           /\ \A c \in DOMAIN res.echo2 :
                 /\ c \in DOMAIN m.vals
                 /\ res.echo2[c] = CpEcho(nd, c, m.round, m.vals[c], q).echo2
           /\ \A c \in DOMAIN m.vals :
                 c \in DOMAIN res.echo2
                    <=> CpEcho(nd, c, m.round, m.vals[c], q).echo2 # NoVal
<1> DEFINE D == DOMAIN m.vals
           k == m.round
           f == [c \in D |-> CpEcho(nd, c, k, m.vals[c], q)]
           g == [c \in D |-> f[c].rs]
           new == [c \in Checkpoints |-> IF c \in D THEN [nd.rs[c] EXCEPT ![k] = g[c]]
                                                    ELSE nd.rs[c]]
           D1 == {c \in D : f[c].echo1 # NoVal}
           D2 == {c \in D : f[c].echo2 # NoVal}
<1>1. /\ m.vals \in Vals /\ k \in 0 .. Rounds /\ nd.rs \in States
      /\ D \in SUBSET Checkpoints /\ \A c \in D : m.vals[c] \in AnyVal
    BY MessageShape, TaskShape
<1>2. ASSUME NEW c \in D
      PROVE  /\ f[c].rs \in StateOf(AnyVal, AnyVal)
             /\ f[c].echo1 \in AnyVal \union {NoVal} /\ f[c].echo2 \in AnyVal \union {NoVal}
    <2>1. nd.rs[c][k] \in StateOf(AnyVal, AnyVal)
        BY <1>1 DEF States
    <2>2. f[c] = HearEcho(nd.rs[c][k], m.vals[c], q, MinThreshold, HighThreshold)
        BY DEF CpEcho
    <2>3. f[c].rs \in StateOf(AnyVal, AnyVal) /\ EchoDoes(nd.rs[c][k], m.vals[c], q, f[c])
        BY <1>1, <2>1, <2>2, SpansValues, HearEchoDoes
    <2> DEFINE e == f[c]
    <2>4. EchoDoes(nd.rs[c][k], m.vals[c], q, e) /\ m.vals[c] \in AnyVal
        BY <1>1, <2>3
    <2> HIDE DEF e
    <2>5. e.echo1 \in AnyVal \union {NoVal} /\ e.echo2 \in AnyVal \union {NoVal}
        BY <2>4 DEF EchoDoes
    <2> QED
        BY <2>3, <2>5 DEF e
<1>3. /\ new \in States
      /\ \A c \in D : new[c][k] = g[c]
      /\ \A c \in Checkpoints \ D : new[c][k] = nd.rs[c][k]
      /\ \A c \in Checkpoints, r \in 0 .. Rounds : r # k => new[c][r] = nd.rs[c][r]
  <2>1. \A c \in D : g[c] \in StateOf(AnyVal, AnyVal)
      BY <1>2
  <2> HIDE DEF g, D, k
  <2> QED
      BY <1>1, <2>1 DEF States
<1>4. /\ res.nd = [nd EXCEPT !.rs = new]
      /\ res.echo1 = [c \in D1 |-> f[c].echo1]
      /\ res.echo2 = [c \in D2 |-> f[c].echo2]
    BY DEF AddEchoes
<1> HIDE DEF new, g
<1>5. /\ res.nd \in TaskSending(Z) /\ SameTask(nd, res.nd) /\ res.nd.sent = nd.sent
      /\ res.nd.rs = new
    BY <1>3, <1>4 DEF TaskSending, SameTask
<1>6. \A c \in D : g[c] = f[c].rs
    BY DEF g
<1>7. /\ [c \in D1 |-> f[c].echo1] \in Vals
      /\ [c \in D2 |-> f[c].echo2] \in Vals
  <2>1. /\ \A c \in D1 : f[c].echo1 \in AnyVal
        /\ \A c \in D2 : f[c].echo2 \in AnyVal
      BY <1>2
  <2>2. D1 \in SUBSET Checkpoints /\ D2 \in SUBSET Checkpoints
      BY <1>1
  <2> HIDE DEF D1, D2, f
  <2>3. /\ [c \in D1 |-> f[c].echo1] \in [D1 -> AnyVal]
        /\ [c \in D2 |-> f[c].echo2] \in [D2 -> AnyVal]
      BY <2>1
  <2> QED
      BY <2>2, <2>3 DEF Vals
<1>8. \A c \in D : f[c] = CpEcho(nd, c, k, m.vals[c], q)
    OBVIOUS
<1>9. D1 \subseteq D /\ D2 = {c \in D : f[c].echo2 # NoVal}
    OBVIOUS
<1> HIDE DEF f, D1, D2
<1> QED
    BY <1>3, <1>4, <1>5, <1>6, <1>7, <1>8, <1>9

LEMMA AddEchoes2Does ==
    ASSUME NEW Z, NEW nd \in TaskSending(Z), NEW m, m.vals \in Vals, m.round \in 0 .. Rounds,
           NEW q \in Node, NEW new, new = AddEchoes2(nd, m, q)
    PROVE  /\ new \in TaskSending(Z) /\ SameTask(nd, new) /\ new.sent = nd.sent
           /\ \A c \in DOMAIN m.vals :
                 new.rs[c][m.round] = CpEcho2(nd, c, m.round, m.vals[c], q)
           /\ \A c \in Checkpoints \ DOMAIN m.vals : new.rs[c][m.round] = nd.rs[c][m.round]
           /\ \A c \in Checkpoints, r \in 0 .. Rounds :
                 r # m.round => new.rs[c][r] = nd.rs[c][r]
<1> DEFINE D == DOMAIN m.vals
           k == m.round
           g == [c \in D |-> CpEcho2(nd, c, k, m.vals[c], q)]
           rss == [c \in Checkpoints |-> IF c \in D THEN [nd.rs[c] EXCEPT ![k] = g[c]]
                                                    ELSE nd.rs[c]]
<1>1. /\ k \in 0 .. Rounds /\ nd.rs \in States
      /\ D \in SUBSET Checkpoints /\ \A c \in D : m.vals[c] \in AnyVal
    BY ValsShape DEF TaskSending, Vals
<1>2. ASSUME NEW c \in D PROVE g[c] \in StateOf(AnyVal, AnyVal)
    <2>1. nd.rs[c][k] \in StateOf(AnyVal, AnyVal)
        BY <1>1 DEF States
    <2>2. g[c] = HearEcho2(nd.rs[c][k], m.vals[c], q, HighThreshold)
        BY DEF CpEcho2
    <2> QED
        BY <1>1, <2>1, <2>2, SpansValues, HearEcho2Does
<1>3. new = [nd EXCEPT !.rs = rss]
    BY DEF AddEchoes2
<1>4. \A c \in D : g[c] = CpEcho2(nd, c, k, m.vals[c], q)
    OBVIOUS
<1>5. /\ rss \in States
      /\ \A c \in D : rss[c][k] = g[c]
      /\ \A c \in Checkpoints \ D : rss[c][k] = nd.rs[c][k]
      /\ \A c \in Checkpoints, r \in 0 .. Rounds : r # k => rss[c][r] = nd.rs[c][r]
  <2> HIDE DEF g, D, k
  <2> QED
      BY <1>1, <1>2 DEF States
<1> HIDE DEF rss, g
<1>6. /\ new \in TaskSending(Z) /\ SameTask(nd, new) /\ new.sent = nd.sent /\ new.rs = rss
    BY <1>3, <1>5 DEF TaskSending, SameTask
<1> QED
    BY <1>4, <1>5, <1>6

\* Sending one more message.
LEMMA Sends ==
    ASSUME NEW Z, NEW nd \in TaskSending(Z), NEW kind, NEW r, NEW vals,
           Msg(kind, r, vals) \in Z, NEW new, new = Broadcast(nd, kind, r, vals)
    PROVE  new \in TaskSending(Z) /\ SameTask(nd, new) /\ new.rs = nd.rs
<1> DEFINE sent == Append(nd.sent, Msg(kind, r, vals))
<1>1. nd.sent \in Seq(Z)
    BY DEF TaskSending
<1>2. sent \in Seq(Z)
    BY <1>1, AppendProperties
<1>3. new = [nd EXCEPT !.sent = sent]
    BY DEF Broadcast
<1> HIDE DEF sent
<1> QED
    BY <1>2, <1>3 DEF TaskSending, SameTask

LEMMA Amplifies ==
    ASSUME NEW Z, NEW nd \in TaskSending(Z), NEW r, NEW vals, Msg("ECHO1", r, vals) \in Z,
           NEW new, new = AmplifyEcho(nd, r, vals)
    PROVE  new \in TaskSending(Z) /\ SameTask(nd, new) /\ new.rs = nd.rs
<1>1. CASE vals = <<>>
    BY <1>1 DEF AmplifyEcho, SameTask
<1>2. CASE vals # <<>>
  <2>1. new = Broadcast(nd, "ECHO1", r, vals)
      BY <1>2 DEF AmplifyEcho
  <2> QED
      BY <2>1, Sends
<1> QED
    BY <1>1, <1>2

\* The round state a round begins with: one slot, with the node's own ECHO1.
OwnStart(v, p) == HearEcho(NewWithEcho(v, p), v, p, MinThreshold, HighThreshold)

LEMMA NewWithEchoIn ==
    ASSUME NEW S, NEW T, NEW v \in S, NEW p \in Node, NEW rs, rs = NewWithEcho(v, p)
    PROVE  rs \in StateOf(S, T)
<1> DEFINE first == NewSlot(v, {p}, {})
<1>1. first \in Slot(S)
    BY DEF NewSlot, Slot
<1>2. rs = [slots |-> <<first>>, echo1vals |-> {}, term |-> NoVal]
    BY DEF NewWithEcho
<1> HIDE DEF first
<1>3. <<first>> \in Seq(Slot(S))
    BY <1>1
<1>4. rs \in Fields(S, T) /\ rs.slots = <<first>>
    BY <1>2, <1>3 DEF Fields
<1> QED
    BY <1>1, <1>4, FirstHeard

LEMMA OwnStartIn ==
    ASSUME NEW S \in SUBSET AnyVal, NEW T, Spans(T, S), NEW v \in S, NEW p \in Node
    PROVE  OwnStart(v, p).rs \in StateOf(S, T)
<1> DEFINE rs == NewWithEcho(v, p)
           own == HearEcho(rs, v, p, MinThreshold, HighThreshold)
<1>1. rs \in StateOf(S, T)
    BY NewWithEchoIn
<1>2. own = HearEcho(rs, v, p, MinThreshold, HighThreshold) /\ OwnStart(v, p) = own
    BY DEF OwnStart
<1> HIDE DEF own, rs
<1>3. own.rs \in StateOf(S, T)
    BY <1>1, <1>2, HearEchoDoes
<1> QED
    BY <1>2, <1>3

LEMMA OwnStartIs ==
    ASSUME NEW v \in AnyVal, NEW p \in Node, NEW own, own = OwnStart(v, p)
    PROVE  /\ own.rs \in StateOf(AnyVal, AnyVal) /\ own.rs.slots # <<>>
           /\ DOMAIN own.rs.slots = {1} /\ own.rs.slots[1].val = v
           /\ own.rs.slots[1].echo1 = {p} /\ own.rs.slots[1].echo2 = {}
           /\ own.rs.echo1vals = {} /\ own.rs.term = NoVal
           /\ own.echo1 \in {v, NoVal} /\ own.echo2 = NoVal
<1> DEFINE first == NewSlot(v, {p}, {})
           rs == NewWithEcho(v, p)
<1>1. first.val = v /\ first.echo1 = {p} /\ first.echo2 = {}
    BY DEF NewSlot
<1>2. rs = [slots |-> <<first>>, echo1vals |-> {}, term |-> NoVal]
    BY DEF NewWithEcho
<1>3. rs \in StateOf(AnyVal, AnyVal)
    BY NewWithEchoIn
<1>4. own = HearEcho(rs, v, p, MinThreshold, HighThreshold)
    BY DEF OwnStart
<1> HIDE DEF first, rs
<1>5. /\ rs.slots # <<>> /\ rs.echo1vals = {} /\ rs.term = NoVal
      /\ DOMAIN rs.slots = {1} /\ rs.slots[1] = first
    BY <1>2
<1>6. /\ own.rs \in StateOf(AnyVal, AnyVal) /\ own.rs.slots # <<>>
      /\ EchoDoes(rs, v, p, own)
    BY <1>3, <1>4, SpansValues, HearEchoDoes
<1>7. SlotOf(rs, v) = 1 /\ ~Terminated(rs)
    BY <1>1, <1>5 DEF SlotOf, Terminated
<1>8. /\ 1 \in DOMAIN own.rs.slots /\ own.rs.slots[1].val = v
      /\ own.rs.slots[1].echo1 = {p} /\ own.rs.slots[1].echo2 = {}
    BY <1>1, <1>5, <1>6, <1>7 DEF EchoDoes, Grows
<1>9. Cardinality({p}) = 1 /\ ~(Cardinality({p}) >= HighThreshold)
    <2>1. Cardinality({p}) = 1
        BY FS_Singleton
    <2>2. HighThreshold \in Int /\ HighThreshold >= 2
        BY BinAAAssumption, FS_CardinalityType DEF HighThreshold, NumNodes
    <2> QED
        BY <2>1, <2>2
<1>10. /\ own.rs.echo1vals = {} /\ own.rs.term = NoVal /\ own.echo2 = NoVal
       /\ own.echo1 \in {v, NoVal}
    BY <1>5, <1>6, <1>7, <1>8, <1>9 DEF EchoDoes
<1>11. DOMAIN own.rs.slots = {1}
  <2>1. DOMAIN own.rs.slots \in {{}, {1}, {1, 2}}
      BY <1>6, StateShape
  <2>2. 2 \in DOMAIN own.rs.slots => v # rs.slots[1].val
      BY <1>5, <1>6 DEF EchoDoes, Grows
  <2> QED
      BY <1>1, <1>5, <1>8, <2>1, <2>2
<1> QED
    BY <1>6, <1>8, <1>10, <1>11

\* What a node that begins round r says: its own value, on every checkpoint and perhaps
\* once more on those it amplifies at once.
Openings(nd, r) ==
    {m \in Message : /\ m.kind = "ECHO1" /\ m.round = r
                     /\ \A c \in DOMAIN m.vals : m.vals[c] = StartVal(nd, c, r)}

LEMMA StartDoes ==
    ASSUME NEW Z, NEW nd \in TaskSending(Z), NEW p \in Node, NEW r \in 0 .. Rounds,
           \A c \in Checkpoints : StartVal(nd, c, r) \in AnyVal, Openings(nd, r) \subseteq Z,
           NEW new, new = StartBaa(nd, p, r)
    PROVE  /\ new \in TaskSending(Z) /\ new.round = r
           /\ new.input = nd.input /\ new.out = nd.out /\ new.blocked = nd.blocked
           /\ \A c \in Checkpoints : new.rs[c][r] = OwnStart(StartVal(nd, c, r), p).rs
           /\ \A c \in Checkpoints, k \in 0 .. Rounds :
                 k # r => new.rs[c][k] = nd.rs[c][k]
<1> DEFINE vals == [c \in Checkpoints |-> StartVal(nd, c, r)]
           rss == [c \in Checkpoints |->
                     [nd.rs[c] EXCEPT ![r] = NewWithEcho(vals[c], p)]]
           begun == [nd EXCEPT !.round = r, !.rs = rss]
           said == Broadcast(begun, "ECHO1", r, vals)
           own == AddEchoes(said, Msg("ECHO1", r, vals), p)
           m == Msg("ECHO1", r, vals)
<1>1. /\ vals \in [Checkpoints -> AnyVal] /\ DOMAIN vals = Checkpoints
      /\ \A c \in Checkpoints : vals[c] = StartVal(nd, c, r)
    OBVIOUS
<1>2. new = AmplifyEcho(own.nd, r, own.echo1)
  <2>1. ~(r > Rounds)
      BY BinAAAssumption
  <2> QED
      BY <2>1 DEF StartBaa
<1> HIDE DEF vals
<1>3. vals \in Vals
    BY <1>1 DEF Vals
<1>4. /\ m \in Message /\ m \in Openings(nd, r) /\ m.vals = vals /\ m.round = r
    BY <1>1, <1>3 DEF Msg, Message, Openings, Vals
<1>5. /\ rss \in States
      /\ \A c \in Checkpoints : rss[c][r] = NewWithEcho(vals[c], p)
      /\ \A c \in Checkpoints, k \in 0 .. Rounds : k # r => rss[c][k] = nd.rs[c][k]
  <2>1. \A c \in Checkpoints : NewWithEcho(vals[c], p) \in StateOf(AnyVal, AnyVal)
      BY <1>1, NewWithEchoIn
  <2>2. nd.rs \in States
      BY DEF TaskSending
  <2> QED
      BY <2>1, <2>2 DEF States
<1> HIDE DEF rss
<1>6. /\ begun \in TaskSending(Z) /\ begun.rs = rss /\ begun.round = r
      /\ begun.input = nd.input /\ begun.out = nd.out /\ begun.blocked = nd.blocked
  <2>1. r \in -1 .. Rounds + 1
      BY BinAAAssumption
  <2> QED
      BY <1>5, <2>1 DEF TaskSending
<1> HIDE DEF begun
<1>7. said \in TaskSending(Z) /\ SameTask(begun, said) /\ said.rs = rss
  <2>1. Msg("ECHO1", r, vals) \in Z
      BY <1>4
  <2> QED
      BY <1>6, <2>1, Sends
<1>8. own = AddEchoes(said, m, p)
    OBVIOUS
<1> HIDE DEF said, own, m
<1>9. /\ own.nd \in TaskSending(Z) /\ SameTask(said, own.nd)
      /\ \A c \in Checkpoints :
            own.nd.rs[c][r] = CpEcho(said, c, r, vals[c], p).rs
      /\ \A c \in Checkpoints, k \in 0 .. Rounds :
            k # r => own.nd.rs[c][k] = said.rs[c][k]
      /\ own.echo1 \in Vals
      /\ \A c \in DOMAIN own.echo1 :
            c \in Checkpoints /\ own.echo1[c] = CpEcho(said, c, r, vals[c], p).echo1
    BY <1>1, <1>4, <1>7, <1>8, AddEchoesDoes
<1>10. ASSUME NEW c \in Checkpoints
       PROVE  CpEcho(said, c, r, vals[c], p) = OwnStart(StartVal(nd, c, r), p)
    BY <1>1, <1>5, <1>7 DEF CpEcho, OwnStart
<1>11. Msg("ECHO1", r, own.echo1) \in Z
  <2>1. \A c \in DOMAIN own.echo1 : own.echo1[c] = StartVal(nd, c, r)
    <3> SUFFICES ASSUME NEW c \in DOMAIN own.echo1 PROVE own.echo1[c] = StartVal(nd, c, r)
        OBVIOUS
    <3>1. /\ c \in Checkpoints /\ own.echo1[c] = OwnStart(StartVal(nd, c, r), p).echo1
          /\ StartVal(nd, c, r) \in AnyVal
        BY <1>9, <1>10
    <3>2. own.echo1[c] \in {StartVal(nd, c, r), NoVal}
      <4> DEFINE w == StartVal(nd, c, r)
      <4>1. w \in AnyVal
          BY <3>1
      <4> HIDE DEF w
      <4>2. OwnStart(w, p).echo1 \in {w, NoVal}
          BY <4>1, OwnStartIs
      <4> QED
          BY <3>1, <4>2 DEF w
    <3>3. own.echo1[c] \in AnyVal
      <4>1. own.echo1 \in Vals
          BY <1>9
      <4> QED
          BY <4>1, ValsShape
    <3>4. NoVal \notin AnyVal
        BY ValuesFinite DEF NoVal
    <3> QED
        BY <3>2, <3>3, <3>4
  <2>2. Msg("ECHO1", r, own.echo1) \in Openings(nd, r)
      BY <1>9, <2>1 DEF Msg, Message, Openings, Vals
  <2> QED
      BY <2>2
<1>12. new \in TaskSending(Z) /\ SameTask(own.nd, new) /\ new.rs = own.nd.rs
    BY <1>2, <1>9, <1>11, Amplifies
<1>13. \A c \in Checkpoints : new.rs[c][r] = OwnStart(StartVal(nd, c, r), p).rs
    BY <1>9, <1>10, <1>12
<1>14. \A c \in Checkpoints, k \in 0 .. Rounds : k # r => new.rs[c][k] = nd.rs[c][k]
    BY <1>5, <1>7, <1>9, <1>12
<1> QED
    BY <1>6, <1>7, <1>9, <1>12, <1>13, <1>14 DEF SameTask

LEMMA FinishDoes ==
    ASSUME NEW Z, NEW nd \in TaskSending(Z), NEW p \in Node,
           NEW new, new = StartBaa(nd, p, Rounds + 1)
    PROVE  /\ new \in TaskSending(Z) /\ new.round = Rounds + 1
           /\ new.input = nd.input /\ new.rs = nd.rs
<1>1. Rounds + 1 > Rounds /\ Rounds + 1 \in -1 .. Rounds + 1
    BY BinAAAssumption
<1>2. new = SendResult([nd EXCEPT !.round = Rounds + 1])
    BY <1>1 DEF StartBaa
<1> DEFINE at == [nd EXCEPT !.round = Rounds + 1]
<1>3. at \in TaskSending(Z) /\ at.input = nd.input /\ at.rs = nd.rs /\ at.round = Rounds + 1
    BY <1>1 DEF TaskSending
<1> HIDE DEF at
<1>4. new = SendResult(at)
    BY <1>2 DEF at
<1>5. CASE at.out = 0
  <2>1. new = [at EXCEPT !.out = 1]
      BY <1>4, <1>5 DEF SendResult
  <2> QED
      BY <1>3, <2>1 DEF TaskSending
<1>6. CASE at.out # 0
  <2>1. new = [at EXCEPT !.blocked = TRUE]
      BY <1>4, <1>6 DEF SendResult
  <2> QED
      BY <1>3, <2>1 DEF TaskSending
<1> QED
    BY <1>5, <1>6

\* The state of a round that counts a message of q, and the ECHO2 that p answers it with.
Counted(rs, kind, v, q, p) ==
    LET e == HearEcho(rs, v, q, MinThreshold, HighThreshold)
    IN  IF kind = "ECHO2" THEN HearEcho2(rs, v, q, HighThreshold)
        ELSE IF e.echo2 = NoVal THEN e.rs
        ELSE HearEcho2(e.rs, e.echo2, p, HighThreshold)

\* What p may say of the round of a message before it begins another.
Answers(nd, q, m) ==
    {x \in Message : /\ m.kind = "ECHO1" /\ x.round = m.round
                     /\ \A c \in DOMAIN x.vals :
                           /\ c \in DOMAIN m.vals
                           /\ \/ /\ x.kind = "ECHO1"
                                 /\ x.vals[c] = CpEcho(nd, c, m.round, m.vals[c], q).echo1
                              \/ /\ x.kind = "ECHO2"
                                 /\ x.vals[c] = CpEcho(nd, c, m.round, m.vals[c], q).echo2}

Hears(nd, h, p, q, m) ==
    /\ SameTask(nd, h)
    /\ \A c \in DOMAIN m.vals :
          h.rs[c][m.round] = Counted(nd.rs[c][m.round], m.kind, m.vals[c], q, p)
    /\ \A c \in Checkpoints \ DOMAIN m.vals : h.rs[c][m.round] = nd.rs[c][m.round]
    /\ \A c \in Checkpoints, r \in 0 .. Rounds : r # m.round => h.rs[c][r] = nd.rs[c][r]

\* A round that has ended has ended for good.
LEMMA StaysTerminated ==
    ASSUME NEW rs \in StateOf(AnyVal, AnyVal), NEW v \in AnyVal, NEW q \in Node,
           Terminated(rs)
    PROVE  Terminated(HearEcho2(rs, v, q, HighThreshold))
<1> DEFINE new == HearEcho2(rs, v, q, HighThreshold)
<1>1. new = HearEcho2(rs, v, q, HighThreshold)
    OBVIOUS
<1> HIDE DEF new
<1>2. new \in StateOf(AnyVal, AnyVal) /\ Echo2Does(rs, v, q, new)
    BY <1>1, SpansValues, HearEcho2Does
<1>3. \A i \in DOMAIN new.slots : new.slots[i].val \in AnyVal
    BY <1>2, StateShape DEF Slot
<1>4. new.term # NoVal
    BY <1>2, <1>3, ValuesFinite DEF Echo2Does, Terminated, NoVal
<1> QED
    BY <1>4 DEF new, Terminated

\* process_msg: the message is counted, and once or twice the next round begun.
Begun(h, new, p, k) ==
    \/ new = StartBaa(h, p, k + 1)
    \/ new = StartBaa(StartBaa(h, p, k + 1), p, k + 1)

LEMMA ProcessDoes ==
    ASSUME NEW Z, NEW nd \in TaskSending(Z), NEW p \in Node, NEW q \in Node,
           NEW m \in Message, Answers(nd, q, m) \subseteq Z, ~Passed(nd, m), NEW new,
           new = IF m.kind = "ECHO1" THEN ProcessBaaEcho(nd, p, m, q)
                                     ELSE ProcessBaaEcho2(nd, p, m, q)
    PROVE  \E h \in TaskSending(Z) :
              /\ Hears(nd, h, p, q, m)
              /\ new = h \/ (TerminatedRound(h, m.round) /\ Begun(h, new, p, m.round))
<1> DEFINE k == m.round
<1>1. k \in 0 .. Rounds /\ m.vals \in Vals /\ m.kind \in {"ECHO1", "ECHO2"}
    BY DEF Message, Vals
<1>2. CASE m.kind = "ECHO2"
  <2> DEFINE h == AddEchoes2(nd, m, q)
  <2>1. new = IF TerminatedRound(h, k) THEN StartBaa(h, p, k + 1) ELSE h
      BY <1>2 DEF ProcessBaaEcho2
  <2>2. h = AddEchoes2(nd, m, q)
      OBVIOUS
  <2> HIDE DEF h
  <2>3. h \in TaskSending(Z) /\ Hears(nd, h, p, q, m)
    <3>1. /\ h \in TaskSending(Z) /\ SameTask(nd, h)
          /\ \A c \in DOMAIN m.vals : h.rs[c][k] = CpEcho2(nd, c, k, m.vals[c], q)
          /\ \A c \in Checkpoints \ DOMAIN m.vals : h.rs[c][k] = nd.rs[c][k]
          /\ \A c \in Checkpoints, r \in 0 .. Rounds : r # k => h.rs[c][r] = nd.rs[c][r]
        BY <1>1, <2>2, AddEchoes2Does
    <3>2. \A c \in DOMAIN m.vals :
             h.rs[c][k] = Counted(nd.rs[c][k], m.kind, m.vals[c], q, p)
        BY <1>2, <3>1 DEF Counted, CpEcho2
    <3> QED
        BY <3>1, <3>2 DEF Hears
  <2> QED
      BY <2>1, <2>3 DEF Begun
<1>3. CASE m.kind = "ECHO1"
  <2> DEFINE res == AddEchoes(nd, m, q)
             ends == TerminatedRound(res.nd, k)
             amplified == AmplifyEcho(res.nd, k, res.echo1)
             saying == Broadcast(amplified, "ECHO2", k, res.echo2)
             vote == Msg("ECHO2", k, res.echo2)
             heard == AddEchoes2(saying, vote, p)
             voted == IF res.echo2 = <<>> THEN amplified
                      ELSE ProcessBaaEcho2(saying, p, vote, p)
  <2>1. new = IF ends THEN StartBaa(voted, p, k + 1) ELSE voted
      BY <1>3 DEF ProcessBaaEcho
  <2>2. res = AddEchoes(nd, m, q)
      OBVIOUS
  <2> HIDE DEF res
  <2>3. /\ res.nd \in TaskSending(Z) /\ SameTask(nd, res.nd)
        /\ \A c \in DOMAIN m.vals : res.nd.rs[c][k] = CpEcho(nd, c, k, m.vals[c], q).rs
        /\ \A c \in Checkpoints \ DOMAIN m.vals : res.nd.rs[c][k] = nd.rs[c][k]
        /\ \A c \in Checkpoints, r \in 0 .. Rounds : r # k => res.nd.rs[c][r] = nd.rs[c][r]
        /\ res.echo1 \in Vals /\ res.echo2 \in Vals
      BY <1>1, <2>2, AddEchoesDoes
  <2>4. /\ \A c \in DOMAIN res.echo1 :
              c \in DOMAIN m.vals /\ res.echo1[c] = CpEcho(nd, c, k, m.vals[c], q).echo1
        /\ \A c \in DOMAIN res.echo2 :
              c \in DOMAIN m.vals /\ res.echo2[c] = CpEcho(nd, c, k, m.vals[c], q).echo2
        /\ \A c \in DOMAIN m.vals :
              c \in DOMAIN res.echo2 <=> CpEcho(nd, c, k, m.vals[c], q).echo2 # NoVal
      BY <1>1, <2>2, AddEchoesDoes
  <2>5. Msg("ECHO1", k, res.echo1) \in Z /\ vote \in Z
    <3>1. Msg("ECHO1", k, res.echo1) \in Message /\ vote \in Message
        BY <1>1, <2>3 DEF Msg, Message, Vals
    <3>2. Msg("ECHO1", k, res.echo1) \in Answers(nd, q, m) /\ vote \in Answers(nd, q, m)
        BY <1>3, <2>4, <3>1 DEF Msg, Answers
    <3> QED
        BY <3>2
  <2>6. amplified \in TaskSending(Z) /\ SameTask(res.nd, amplified) /\ amplified.rs = res.nd.rs
      BY <2>3, <2>5, Amplifies
  <2> HIDE DEF amplified
  <2>7. CASE res.echo2 = <<>>
    <3>1. Hears(nd, amplified, p, q, m)
      <4>1. DOMAIN res.echo2 = {}
          BY <2>7
      <4>2. \A c \in DOMAIN m.vals : CpEcho(nd, c, k, m.vals[c], q).echo2 = NoVal
          BY <2>4, <4>1
      <4>3. \A c \in DOMAIN m.vals :
               amplified.rs[c][k] = Counted(nd.rs[c][k], m.kind, m.vals[c], q, p)
          BY <1>3, <2>3, <2>6, <4>2 DEF Counted, CpEcho
      <4> QED
          BY <2>3, <2>6, <4>3 DEF Hears, SameTask
    <3>2. ends => TerminatedRound(amplified, k)
        BY <2>6 DEF TerminatedRound
    <3> QED
        BY <2>1, <2>6, <2>7, <3>1, <3>2 DEF Begun
  <2>8. CASE res.echo2 # <<>>
    <3>1. saying \in TaskSending(Z) /\ SameTask(amplified, saying) /\ saying.rs = amplified.rs
        BY <2>5, <2>6, Sends
    <3> HIDE DEF saying
    <3>2. vote.vals = res.echo2 /\ vote.round = k
        BY DEF Msg
    <3>3. heard = AddEchoes2(saying, vote, p)
        OBVIOUS
    <3>4. voted = IF TerminatedRound(heard, k) THEN StartBaa(heard, p, k + 1) ELSE heard
      <4>1. ~Passed(saying, vote)
          BY <2>3, <2>6, <3>1, <3>2 DEF Passed, SameTask
      <4> QED
          BY <2>8, <3>2, <4>1 DEF ProcessBaaEcho2
    <3> HIDE DEF heard, voted, vote
    <3>5. /\ heard \in TaskSending(Z) /\ SameTask(saying, heard)
          /\ \A c \in DOMAIN res.echo2 :
                heard.rs[c][k] = CpEcho2(saying, c, k, res.echo2[c], p)
          /\ \A c \in Checkpoints \ DOMAIN res.echo2 : heard.rs[c][k] = saying.rs[c][k]
          /\ \A c \in Checkpoints, r \in 0 .. Rounds :
                r # k => heard.rs[c][r] = saying.rs[c][r]
      <4> HIDE DEF k
      <4>1. vote.vals \in Vals /\ vote.round \in 0 .. Rounds
          BY <1>1, <2>3, <3>2
      <4>2. /\ heard \in TaskSending(Z) /\ SameTask(saying, heard)
            /\ \A c \in DOMAIN vote.vals :
                  heard.rs[c][vote.round] = CpEcho2(saying, c, vote.round, vote.vals[c], p)
            /\ \A c \in Checkpoints \ DOMAIN vote.vals :
                  heard.rs[c][vote.round] = saying.rs[c][vote.round]
            /\ \A c \in Checkpoints, r \in 0 .. Rounds :
                  r # vote.round => heard.rs[c][r] = saying.rs[c][r]
          BY <3>1, <3>3, <4>1, AddEchoes2Does, SMTT(60)
      <4> QED
          BY <3>2, <4>2
    <3>6. SameTask(nd, heard)
        BY <2>3, <2>6, <3>1, <3>5 DEF SameTask
    <3>7. ASSUME NEW c \in DOMAIN m.vals
          PROVE  heard.rs[c][k] = Counted(nd.rs[c][k], m.kind, m.vals[c], q, p)
      <4> DEFINE e == CpEcho(nd, c, k, m.vals[c], q)
      <4>1. saying.rs[c][k] = e.rs /\ c \in Checkpoints
          BY <1>1, <2>3, <2>6, <3>1, ValsShape
      <4>2. Counted(nd.rs[c][k], m.kind, m.vals[c], q, p)
                = IF e.echo2 = NoVal THEN e.rs ELSE HearEcho2(e.rs, e.echo2, p, HighThreshold)
          BY <1>3 DEF Counted, CpEcho
      <4>3. CASE e.echo2 = NoVal
        <5>1. c \notin DOMAIN res.echo2
            BY <2>4, <4>3
        <5> QED
            BY <3>5, <4>1, <4>2, <4>3, <5>1
      <4>4. CASE e.echo2 # NoVal
        <5>1. c \in DOMAIN res.echo2 /\ res.echo2[c] = e.echo2
            BY <2>4, <4>4
        <5>2. heard.rs[c][k] = HearEcho2(e.rs, e.echo2, p, HighThreshold)
            BY <3>5, <4>1, <5>1 DEF CpEcho2
        <5> QED
            BY <4>2, <4>4, <5>2
      <4> QED
          BY <4>3, <4>4
    <3>8. \A c \in Checkpoints \ DOMAIN m.vals : heard.rs[c][k] = nd.rs[c][k]
        BY <2>3, <2>4, <2>6, <3>1, <3>5
    <3>9. \A c \in Checkpoints, r \in 0 .. Rounds : r # k => heard.rs[c][r] = nd.rs[c][r]
        BY <2>3, <2>6, <3>1, <3>5
    <3>10. Hears(nd, heard, p, q, m)
        BY <3>6, <3>7, <3>8, <3>9 DEF Hears
    <3>11. ends => TerminatedRound(heard, k)
      <4> SUFFICES ASSUME ends, NEW c \in Checkpoints PROVE Terminated(heard.rs[c][k])
          BY DEF TerminatedRound
      <4>1. Terminated(saying.rs[c][k]) /\ saying.rs[c][k] \in StateOf(AnyVal, AnyVal)
        <5>1. Terminated(saying.rs[c][k])
            BY <2>6, <3>1 DEF TerminatedRound
        <5> QED
            BY <1>1, <3>1, <5>1, TaskShape
      <4>2. CASE c \in DOMAIN res.echo2
        <5>1. heard.rs[c][k] = CpEcho2(saying, c, k, res.echo2[c], p)
            BY <3>5, <4>2
        <5>2. heard.rs[c][k] = HearEcho2(saying.rs[c][k], res.echo2[c], p, HighThreshold)
            BY <5>1 DEF CpEcho2
        <5>3. res.echo2[c] \in AnyVal
            BY <2>3, <4>2, ValsShape
        <5> QED
            BY <4>1, <5>2, <5>3, StaysTerminated
      <4>3. CASE c \notin DOMAIN res.echo2
          BY <3>5, <4>1, <4>3
      <4> QED
          BY <4>2, <4>3
    <3> HIDE DEF ends
    <3>12. /\ heard \in TaskSending(Z) /\ Hears(nd, heard, p, q, m)
           /\ \/ new = heard
              \/ TerminatedRound(heard, k) /\ Begun(heard, new, p, k)
      <4>1. CASE TerminatedRound(heard, k)
        <5>1. voted = StartBaa(heard, p, k + 1)
            BY <3>4, <4>1
        <5>2. new = StartBaa(voted, p, k + 1) \/ new = voted
            BY <2>1
        <5>3. Begun(heard, new, p, k)
            BY <5>1, <5>2 DEF Begun
        <5> QED
            BY <3>5, <3>10, <4>1, <5>3
      <4>2. CASE ~TerminatedRound(heard, k)
        <5>1. voted = heard
            BY <3>4, <4>2
        <5>2. new = voted
            BY <2>1, <3>11, <4>2
        <5> QED
            BY <3>5, <3>10, <5>1, <5>2
      <4> QED
          BY <4>1, <4>2
    <3> QED
        BY <3>12
  <2> QED
      BY <2>7, <2>8
<1> QED
    BY <1>1, <1>2, <1>3

\* The node that takes the step to `new` has begun round r from h.
Begins(h, new, p, r) ==
    /\ new.input = h.input /\ new.round = r
    /\ \A c \in Checkpoints, k \in 0 .. Rounds :
          /\ k = r => new.rs[c][k] = OwnStart(StartVal(h, c, r), p).rs
          /\ k # r => new.rs[c][k] = h.rs[c][k]

LEMMA BeginsOnce ==
    ASSUME NEW Z, NEW h \in TaskSending(Z), NEW p \in Node, NEW r \in 0 .. Rounds + 1,
           \A c \in Checkpoints : StartVal(h, c, r) \in AnyVal, Openings(h, r) \subseteq Z,
           NEW new, new = StartBaa(h, p, r)
    PROVE  new \in TaskSending(Z) /\ Begins(h, new, p, r)
<1>1. CASE r \in 0 .. Rounds
  <2>1. /\ new \in TaskSending(Z) /\ new.round = r /\ new.input = h.input
        /\ \A c \in Checkpoints : new.rs[c][r] = OwnStart(StartVal(h, c, r), p).rs
        /\ \A c \in Checkpoints, k \in 0 .. Rounds : k # r => new.rs[c][k] = h.rs[c][k]
      BY <1>1, StartDoes
  <2> QED
      BY <2>1 DEF Begins
<1>2. CASE r = Rounds + 1
  <2>1. new = StartBaa(h, p, Rounds + 1)
      BY <1>2
  <2>2. /\ new \in TaskSending(Z) /\ new.round = Rounds + 1
        /\ new.input = h.input /\ new.rs = h.rs
      BY <2>1, FinishDoes
  <2>3. \A k \in 0 .. Rounds : k # r
      BY <1>2, BinAAAssumption
  <2> QED
      BY <1>2, <2>2, <2>3 DEF Begins
<1> QED
    BY <1>1, <1>2, BinAAAssumption

\* Begun twice, a round is begun as it is once: what it begins with is unchanged.
LEMMA BegunDoes ==
    ASSUME NEW Z, NEW h \in TaskSending(Z), NEW p \in Node, NEW k \in 0 .. Rounds,
           TerminatedRound(h, k), Openings(h, k + 1) \subseteq Z, NEW new, Begun(h, new, p, k)
    PROVE  new \in TaskSending(Z) /\ Begins(h, new, p, k + 1)
<1>1. k + 1 \in 0 .. Rounds + 1 /\ ~(k + 1 = 0) /\ (k + 1) - 1 = k /\ k # k + 1
    BY BinAAAssumption
<1>2. \A nd, c : StartVal(nd, c, k + 1) = nd.rs[c][k].term
    BY <1>1 DEF StartVal
<1>3. ASSUME NEW c \in Checkpoints PROVE StartVal(h, c, k + 1) \in AnyVal
    <2>1. h.rs[c][k].term \in AnyVal \union {NoVal}
        BY TaskShape
    <2> QED
        BY <1>2, <2>1 DEF TerminatedRound, Terminated
<1> DEFINE once == StartBaa(h, p, k + 1)
           r == k + 1
<1>4. once = StartBaa(h, p, r) /\ r \in 0 .. Rounds + 1 /\ r = k + 1 /\ k # r
    BY <1>1
<1> HIDE DEF once, r
<1>5. once \in TaskSending(Z) /\ Begins(h, once, p, r)
    BY <1>3, <1>4, BeginsOnce
<1>6. \A c \in Checkpoints : StartVal(once, c, r) = StartVal(h, c, r)
    BY <1>2, <1>4, <1>5 DEF Begins
<1>7. CASE new = once
    BY <1>4, <1>5, <1>7
<1>8. CASE new = StartBaa(once, p, r)
  <2>1. Openings(once, r) \subseteq Z
    <3>1. Openings(once, r) \subseteq Openings(h, r)
      <4> SUFFICES ASSUME NEW m \in Openings(once, r) PROVE m \in Openings(h, r)
          OBVIOUS
      <4>1. m \in Message /\ DOMAIN m.vals \subseteq Checkpoints
          BY DEF Openings, Message
      <4> QED
          BY <1>6, <4>1 DEF Openings
    <3> QED
        BY <1>4, <3>1
  <2>2. \A c \in Checkpoints : StartVal(once, c, r) \in AnyVal
      BY <1>3, <1>4, <1>6
  <2>3. new \in TaskSending(Z) /\ Begins(once, new, p, r)
      BY <1>4, <1>5, <1>8, <2>1, <2>2, BeginsOnce
  <2>4. Begins(h, new, p, r)
      BY <1>5, <1>6, <2>3 DEF Begins
  <2> QED
      BY <1>4, <2>3, <2>4
<1>9. new = once \/ new = StartBaa(once, p, r)
    BY <1>4 DEF Begun, once
<1> QED
    BY <1>7, <1>8, <1>9

-----------------------------------------------------------------------------
(* What a step of the system does to every round state and every link.     *)

\* p counts the message m of q on checkpoint c, in a round it has not left.
Counts(p, q, m, c) ==
    /\ q \in Node \ {p} /\ m \in Flying(q) /\ c \in DOMAIN m.vals
    /\ 0 <= node[p].round /\ node[p].round <= m.round
    /\ node'[p].rs[c][m.round]
           = Counted(node[p].rs[c][m.round], m.kind, m.vals[c], q, p)

\* p begins the round it is in after the step.
Opens(p) ==
    /\ node[p].round < node'[p].round /\ 0 <= node'[p].round
    /\ \A c \in Checkpoints :
          /\ StartVal(node'[p], c, node'[p].round) \in AnyVal
          /\ node'[p].round <= Rounds =>
                node'[p].rs[c][node'[p].round]
                    = OwnStart(StartVal(node'[p], c, node'[p].round), p).rs

Opening(p, x) == Opens(p) /\ x \in Openings(node'[p], node'[p].round)

Answering(p, x) ==
    /\ 0 <= node[p].round
    /\ \E q \in Node : \E m \in Flying(q) :
          x \in Answers(node[p], q, m) /\ \A c \in DOMAIN x.vals : Counts(p, q, m, c)

Moves(p) ==
    /\ \A a \in Node : node'[a].input = node[a].input /\ (a # p => node'[a] = node[a])
    /\ node'[p].round = node[p].round \/ Opens(p)
    /\ \A c \in Checkpoints, r \in 0 .. Rounds :
          \/ node'[p].rs[c][r] = node[p].rs[c][r]
          \/ \E q \in Node : \E m \in Flying(q) : m.round = r /\ Counts(p, q, m, c)
          \/ r = node'[p].round /\ Opens(p)
    /\ \A a \in Node : \A x \in Flying(a)' :
          \/ x \in Flying(a)
          \/ a = p /\ (Opening(p, x) \/ Answering(p, x))

\* Links that hold no more than what is on its way; p has taken its step to nd, and sent
\* of Z at most.
Remains(lk) ==
    /\ lk \in [Node -> [Node -> Seq(Message)]] /\ \A a \in Node : lk[a][a] = <<>>
    /\ \A a \in Node, b \in Node : \A i \in DOMAIN lk[a][b] : lk[a][b][i] \in Flying(a)

Ran(p, nd, Z) ==
    /\ \A a \in Node : a # p => node'[a] = node[a]
    /\ node'[p].input = nd.input /\ node'[p].round = nd.round /\ node'[p].rs = nd.rs
    /\ \A a \in Node : \A x \in Flying(a)' : x \in Flying(a) \/ (a = p /\ x \in Z)

LEMMA RunDoes ==
    ASSUME TypeInv, NEW p \in Node, NEW Z \in SUBSET Message, NEW nd \in TaskSending(Z),
           NEW lk, Remains(lk), Run(p, nd, lk), UNCHANGED <<output, crashed>>
    PROVE  TypeInv' /\ Ran(p, nd, Z)
<1> DEFINE done == [nd EXCEPT !.sent = <<>>]
           row == [q \in Node |-> IF q = p THEN <<>> ELSE lk[p][q] \o nd.sent]
<1>0. /\ lk \in [Node -> [Node -> Seq(Message)]] /\ \A a \in Node : lk[a][a] = <<>>
      /\ \A a \in Node, b \in Node : \A i \in DOMAIN lk[a][b] : lk[a][b][i] \in Flying(a)
    BY DEF Remains
<1>1. done \in Task /\ done.input = nd.input /\ done.round = nd.round /\ done.rs = nd.rs
    BY DEF TaskSending, Task, States
<1>2. node' = [node EXCEPT ![p] = done] /\ link' = [lk EXCEPT ![p] = row]
    BY DEF Run
<1>3. nd.sent \in Seq(Z) /\ nd.sent \in Seq(Message)
  <2>1. nd.sent \in Seq(Z)
      BY DEF TaskSending
  <2> QED
      BY <2>1
<1>4. ASSUME NEW q \in Node
      PROVE  /\ row[q] \in Seq(Message) /\ row[p] = <<>>
             /\ \A i \in DOMAIN row[q] : row[q][i] \in Flying(p) \/ row[q][i] \in Z
  <2>1. CASE q = p
      BY <2>1
  <2>2. CASE q # p
    <3> DEFINE s == lk[p][q]
               t == nd.sent
    <3>1. s \in Seq(Message) /\ t \in Seq(Message) /\ t \in Seq(Z) /\ row[q] = s \o t
        BY <1>0, <1>3, <2>2
    <3>2. \A i \in DOMAIN s : s[i] \in Flying(p)
        BY <1>0
    <3> HIDE DEF s, t, row
    <3>3. /\ row[q] \in Seq(Message) /\ DOMAIN s = 1 .. Len(s) /\ DOMAIN t = 1 .. Len(t)
          /\ Len(s) \in Nat /\ Len(t) \in Nat
          /\ DOMAIN row[q] = 1 .. Len(s) + Len(t)
          /\ \A i \in 1 .. Len(s) + Len(t) :
                row[q][i] = IF i <= Len(s) THEN s[i] ELSE t[i - Len(s)]
        BY <3>1, ConcatProperties, LenProperties
    <3>4. \A i \in DOMAIN t : t[i] \in Z
        BY <3>1
    <3> DEFINE n == Len(s)
               l == Len(t)
    <3>5. ASSUME NEW i \in DOMAIN row[q] PROVE row[q][i] \in Flying(p) \/ row[q][i] \in Z
      <4>1. /\ n \in Nat /\ l \in Nat /\ i \in 1 .. n + l
            /\ DOMAIN s = 1 .. n /\ DOMAIN t = 1 .. l
            /\ row[q][i] = IF i <= n THEN s[i] ELSE t[i - n]
          BY <3>3
      <4> HIDE DEF n, l
      <4>2. CASE i <= n
        <5>1. i \in DOMAIN s /\ row[q][i] = s[i]
            BY <4>1, <4>2
        <5> QED
            BY <3>2, <5>1
      <4>3. CASE ~(i <= n)
        <5>1. i - n \in DOMAIN t /\ row[q][i] = t[i - n]
            BY <4>1, <4>3
        <5> QED
            BY <3>4, <5>1
      <4> QED
          BY <4>2, <4>3
    <3>6. row[p] = <<>>
        BY DEF row
    <3> QED
        BY <3>3, <3>5, <3>6
  <2> QED
      BY <2>1, <2>2
<1>5. row \in [Node -> Seq(Message)]
    BY <1>4
<1> HIDE DEF done, row
<1>6. /\ node' \in [Node -> Task] /\ \A a \in Node : a # p => node'[a] = node[a]
      /\ node'[p] = done
    BY <1>1, <1>2 DEF TypeInv
<1>7. /\ link' \in [Node -> [Node -> Seq(Message)]] /\ link'[p] = row
      /\ \A a \in Node : a # p => link'[a] = lk[a]
    BY <1>0, <1>2, <1>5
<1>8. \A a \in Node : link'[a][a] = <<>>
    BY <1>0, <1>4, <1>7
<1>9. TypeInv'
    BY <1>6, <1>7, <1>8 DEF TypeInv
<1>10. ASSUME NEW a \in Node, NEW x \in Flying(a)'
       PROVE  x \in Flying(a) \/ (a = p /\ x \in Z)
  <2>1. PICK b \in Node : \E i \in DOMAIN link'[a][b] : x = link'[a][b][i]
      BY <1>10 DEF Flying
  <2>2. CASE a = p
      BY <1>4, <1>7, <2>1, <2>2
  <2>3. CASE a # p
      BY <1>0, <1>7, <2>1, <2>3
  <2> QED
      BY <2>2, <2>3
<1> QED
    BY <1>1, <1>6, <1>9, <1>10 DEF Ran

\* A step that changes no round, no round state and no input, and sends nothing.
Quiet ==
    /\ \A a \in Node : /\ node'[a].input = node[a].input
                       /\ node'[a].round = node[a].round /\ node'[a].rs = node[a].rs
    /\ \A a \in Node : \A x \in Flying(a)' : x \in Flying(a)

LEMMA TaskBetweenSteps ==
    ASSUME NEW nd \in Task, NEW Z
    PROVE  nd \in TaskSending(Z) /\ [nd EXCEPT !.sent = <<>>] = nd
<1>1. nd.sent = <<>> /\ <<>> \in Seq(Z)
    BY DEF Task
<1> QED
    BY <1>1 DEF Task, TaskSending, States

\* What is left of a link was on it.
LEMMA TailOf ==
    ASSUME NEW s \in Seq(Message), s # <<>>
    PROVE  /\ Tail(s) \in Seq(Message) /\ Head(s) \in Message
           /\ 1 \in DOMAIN s /\ Head(s) = s[1]
           /\ \A i \in DOMAIN Tail(s) : i + 1 \in DOMAIN s /\ Tail(s)[i] = s[i + 1]
<1> DEFINE n == Len(s)
<1>1. /\ n \in Nat /\ n # 0 /\ DOMAIN s = 1 .. n /\ Head(s) = s[1]
      /\ Tail(s) \in Seq(Message) /\ DOMAIN Tail(s) = 1 .. n - 1
      /\ \A i \in 1 .. n - 1 : Tail(s)[i] = s[i + 1]
    BY LenProperties, EmptySeq, HeadTailProperties
<1> HIDE DEF n
<1>2. 1 \in DOMAIN s /\ \A i \in 1 .. n - 1 : i + 1 \in DOMAIN s
    BY <1>1
<1>3. Head(s) \in Message
    BY <1>1, <1>2
<1> QED
    BY <1>1, <1>2, <1>3

LEMMA PrefixOf ==
    ASSUME NEW s \in Seq(Message), NEW k \in 0 .. Len(s)
    PROVE  /\ SubSeq(s, 1, k) \in Seq(Message)
           /\ \A i \in DOMAIN SubSeq(s, 1, k) : i \in DOMAIN s /\ SubSeq(s, 1, k)[i] = s[i]
<1> DEFINE n == Len(s)
           t == SubSeq(s, 1, k)
<1>1. n \in Nat /\ DOMAIN s = 1 .. n /\ k \in 0 .. n
    BY LenProperties
<1>2. \A i \in 1 .. k : s[i] \in Message
  <2> HIDE DEF n
  <2>1. \A i \in 1 .. k : i \in DOMAIN s
      BY <1>1
  <2> QED
      BY <2>1
<1>3. /\ t \in Seq(Message) /\ DOMAIN t = 1 .. k /\ \A i \in 1 .. k : t[i] = s[i]
  <2>1. \A i \in 1 .. k : s[i] \in Message
      BY <1>2
  <2>2. t = [i \in 1 .. k |-> s[i]]
      BY <1>1
  <2> HIDE DEF t, n
  <2>3. t \in Seq(Message)
      BY <1>1, <2>1, <2>2
  <2> QED
      BY <2>2, <2>3
<1> HIDE DEF n, t
<1> QED
    BY <1>1, <1>3 DEF t

LEMMA InFlight ==
    \A a \in Node, b \in Node : \A i \in DOMAIN link[a][b] : link[a][b][i] \in Flying(a)
    BY DEF Flying

\* Joining begins round 0 with the input.
LEMMA JoinDoes ==
    ASSUME TypeInv, NEW p \in Node, Join(p)
    PROVE  TypeInv' /\ Moves(p)
<1> DEFINE nd == node[p]
           Z == Openings(nd, 0)
           new == StartBaa(nd, p, 0)
<1>1. /\ nd \in Task /\ nd \in TaskSending(Z) /\ nd.round = -1
      /\ link \in [Node -> [Node -> Seq(Message)]] /\ \A a \in Node : link[a][a] = <<>>
    BY TaskBetweenSteps DEF Join, TypeInv
<1>2. \A x, c : StartVal(x, c, 0) = x.input[c]
    BY DEF StartVal
<1>3. \A c \in Checkpoints : StartVal(nd, c, 0) \in AnyVal
  <2>1. nd.input \in [Checkpoints -> {0, MaxInput}]
      BY <1>1 DEF Task
  <2>2. 0 \in AnyVal /\ MaxInput \in AnyVal
    <3>1. MaxInput \in Nat
        BY ValuesFinite
    <3> HIDE DEF MaxInput
    <3> QED
        BY <3>1 DEF AnyVal
  <2> QED
      BY <1>2, <2>1, <2>2
<1>4. new = StartBaa(nd, p, 0) /\ 0 \in 0 .. Rounds /\ 0 \in 0 .. Rounds + 1
    BY BinAAAssumption
<1>5. Run(p, new, link) /\ UNCHANGED <<output, crashed>>
    BY DEF Join
<1>6. Remains(link)
    BY <1>1, InFlight DEF Remains
<1>7. Z \in SUBSET Message /\ Openings(nd, 0) \subseteq Z
    BY DEF Openings
<1> HIDE DEF nd, Z, new
<1>8. new \in TaskSending(Z) /\ Begins(nd, new, p, 0)
    BY <1>1, <1>3, <1>4, <1>7, BeginsOnce
<1>9. /\ TypeInv'
      /\ \A a \in Node : a # p => node'[a] = node[a]
      /\ node'[p].input = new.input /\ node'[p].round = new.round /\ node'[p].rs = new.rs
      /\ \A a \in Node : \A x \in Flying(a)' : x \in Flying(a) \/ (a = p /\ x \in Z)
  <2>1. TypeInv' /\ Ran(p, new, Z)
      BY <1>5, <1>6, <1>7, <1>8, RunDoes
  <2> QED
      BY <2>1 DEF Ran
<1>10. \A c \in Checkpoints : StartVal(node'[p], c, 0) = StartVal(nd, c, 0)
    BY <1>2, <1>8, <1>9 DEF Begins
<1>11. node'[p].round = 0 /\ Opens(p)
  <2>1. node'[p].round = 0 /\ node[p].round = -1
      BY <1>1, <1>8, <1>9 DEF Begins, nd
  <2>2. \A c \in Checkpoints :
           node'[p].rs[c][0] = OwnStart(StartVal(node'[p], c, 0), p).rs
      BY <1>4, <1>8, <1>9, <1>10 DEF Begins
  <2> QED
      BY <1>3, <1>10, <2>1, <2>2 DEF Opens
<1>12. \A a \in Node : node'[a].input = node[a].input
    BY <1>8, <1>9 DEF Begins, nd
<1>13. \A c \in Checkpoints, r \in 0 .. Rounds : r # 0 => node'[p].rs[c][r] = node[p].rs[c][r]
    BY <1>8, <1>9 DEF Begins, nd
<1>14. \A x \in Z : Opening(p, x)
  <2> SUFFICES ASSUME NEW x \in Z PROVE x \in Openings(node'[p], 0)
      BY <1>11 DEF Opening
  <2>1. x \in Message /\ DOMAIN x.vals \subseteq Checkpoints
      BY DEF Z, Openings, Message
  <2> QED
      BY <1>10, <2>1 DEF Z, Openings
<1> QED
    BY <1>9, <1>11, <1>12, <1>13, <1>14 DEF Moves

\* A message that is handled is counted on the checkpoints it speaks about, and
\* answered; what ends with it begins the next round.
LEMMA DeliverDoes ==
    ASSUME TypeInv, NEW p \in Node, NEW q \in Node, Deliver(q, p)
    PROVE  TypeInv' /\ (Quiet \/ Moves(p))
<1> DEFINE nd == node[p]
           m == Head(link[q][p])
           lk == [link EXCEPT ![q][p] = Tail(@)]
           new == IF m.kind = "ECHO1" THEN ProcessBaaEcho(nd, p, m, q)
                                      ELSE ProcessBaaEcho2(nd, p, m, q)
<1>1. /\ nd \in Task /\ 0 <= nd.round
      /\ link \in [Node -> [Node -> Seq(Message)]] /\ \A a \in Node : link[a][a] = <<>>
      /\ link[q][p] \in Seq(Message) /\ link[q][p] # <<>>
    BY DEF Deliver, TypeInv
<1>2. Run(p, new, lk) /\ UNCHANGED <<output, crashed>>
    BY DEF Deliver
<1>3. q # p
    BY <1>1
<1>4. /\ m \in Message /\ m \in Flying(q) /\ Tail(link[q][p]) \in Seq(Message)
      /\ \A i \in DOMAIN Tail(link[q][p]) : Tail(link[q][p])[i] \in Flying(q)
    BY <1>1, TailOf DEF Flying
<1>5. Remains(lk)
  <2>1. /\ lk \in [Node -> [Node -> Seq(Message)]]
        /\ lk[q][p] = Tail(link[q][p])
        /\ \A a \in Node, b \in Node : (a # q \/ b # p) => lk[a][b] = link[a][b]
      BY <1>1, <1>4
  <2> HIDE DEF lk
  <2>2. \A a \in Node, b \in Node : \A i \in DOMAIN link[a][b] : link[a][b][i] \in Flying(a)
      BY InFlight
  <2>3. ASSUME NEW a \in Node, NEW b \in Node, NEW i \in DOMAIN lk[a][b]
        PROVE  lk[a][b][i] \in Flying(a)
    <3>1. CASE a = q /\ b = p
        BY <1>4, <2>1, <3>1
    <3>2. CASE a # q \/ b # p
        BY <2>1, <2>2, <3>2
    <3> QED
        BY <3>1, <3>2
  <2> QED
      BY <1>1, <1>3, <2>1, <2>3 DEF Remains
<1>6. new = IF m.kind = "ECHO1" THEN ProcessBaaEcho(nd, p, m, q)
                                ELSE ProcessBaaEcho2(nd, p, m, q)
    OBVIOUS
<1> HIDE DEF m, lk, new
<1>7. CASE Passed(nd, m)
  <2>1. new = nd /\ new \in TaskSending({}) /\ {} \in SUBSET Message
      BY <1>1, <1>6, <1>7, TaskBetweenSteps DEF ProcessBaaEcho, ProcessBaaEcho2
  <2>2. /\ TypeInv'
        /\ \A a \in Node : a # p => node'[a] = node[a]
        /\ node'[p].input = new.input /\ node'[p].round = new.round /\ node'[p].rs = new.rs
        /\ \A a \in Node : \A x \in Flying(a)' : x \in Flying(a) \/ (a = p /\ x \in {})
    <3>1. TypeInv' /\ Ran(p, new, {})
        BY <1>2, <1>5, <2>1, RunDoes
    <3> QED
        BY <3>1 DEF Ran
  <2> QED
      BY <2>1, <2>2 DEF Quiet
<1>8. CASE ~Passed(nd, m)
  <2> DEFINE Z == Answers(nd, q, m)
             k == m.round
  <2>1. Z \in SUBSET Message /\ nd \in TaskSending(Z) /\ k \in 0 .. Rounds
      BY <1>1, <1>4, TaskBetweenSteps DEF Answers, Message
  <2>2. Answers(nd, q, m) \subseteq Z
      OBVIOUS
  <2> HIDE DEF nd, Z
  <2>3. PICK h \in TaskSending(Z) :
           /\ Hears(nd, h, p, q, m)
           /\ new = h \/ (TerminatedRound(h, m.round) /\ Begun(h, new, p, m.round))
      BY <1>4, <1>6, <1>8, <2>1, <2>2, ProcessDoes
  <2>4. \A c \in DOMAIN m.vals : c \in Checkpoints
      BY <1>4 DEF Message
  <2>5. nd.round <= k /\ nd.round \in Int /\ k \in Int
      BY <1>1, <1>8, <2>1 DEF Passed, Task
  <2>6. ASSUME node'[p].rs = h.rs \/ (\A c \in Checkpoints : node'[p].rs[c][k] = h.rs[c][k])
        PROVE  \A c \in DOMAIN m.vals : Counts(p, q, m, c)
      BY <1>1, <1>3, <1>4, <2>3, <2>4, <2>5, <2>6 DEF Hears, Counts, nd
  <2>7. ASSUME NEW x \in Z, \A c \in DOMAIN m.vals : Counts(p, q, m, c)
        PROVE  Answering(p, x)
    <3>1. x \in Answers(node[p], q, m) /\ \A c \in DOMAIN x.vals : c \in DOMAIN m.vals
        BY DEF Z, Answers, nd
    <3> QED
        BY <1>1, <1>4, <2>7, <3>1 DEF Answering, nd
  <2>8. CASE new = h
    <3>1. /\ TypeInv'
          /\ \A a \in Node : a # p => node'[a] = node[a]
          /\ node'[p].input = new.input /\ node'[p].round = new.round
          /\ node'[p].rs = new.rs
          /\ \A a \in Node : \A x \in Flying(a)' : x \in Flying(a) \/ (a = p /\ x \in Z)
      <4>1. TypeInv' /\ Ran(p, new, Z)
          BY <1>2, <1>5, <2>1, <2>3, <2>8, RunDoes
      <4> QED
          BY <4>1 DEF Ran
    <3>2. \A c \in DOMAIN m.vals : Counts(p, q, m, c)
        BY <2>6, <2>8, <3>1
    <3>3. /\ \A a \in Node : node'[a].input = node[a].input
          /\ node'[p].round = node[p].round
        BY <2>3, <2>8, <3>1 DEF Hears, SameTask, nd
    <3>4. ASSUME NEW c \in Checkpoints, NEW r \in 0 .. Rounds
          PROVE  \/ node'[p].rs[c][r] = node[p].rs[c][r]
                 \/ m.round = r /\ Counts(p, q, m, c)
      <4>1. CASE r = k /\ c \in DOMAIN m.vals
          BY <3>2, <4>1
      <4>2. CASE r # k \/ c \notin DOMAIN m.vals
          BY <2>3, <2>8, <3>1, <4>2 DEF Hears, nd
      <4> QED
          BY <4>1, <4>2
    <3>5. \A x \in Z : Answering(p, x)
        BY <2>7, <3>2
    <3>6. Moves(p)
      <4>1. \A c \in Checkpoints, r \in 0 .. Rounds :
               \/ node'[p].rs[c][r] = node[p].rs[c][r]
               \/ \E b \in Node : \E x \in Flying(b) : x.round = r /\ Counts(p, b, x, c)
          BY <1>4, <3>4
      <4>2. \A a \in Node : \A x \in Flying(a)' :
               x \in Flying(a) \/ (a = p /\ Answering(p, x))
          BY <3>1, <3>5
      <4> QED
          BY <3>1, <3>3, <4>1, <4>2 DEF Moves
    <3> QED
        BY <3>1, <3>6
  <2>9. CASE TerminatedRound(h, k) /\ Begun(h, new, p, k)
    <3> DEFINE O == Openings(h, k + 1)
               Y == Z \union O
               t == k + 1
    <3>1. Y \in SUBSET Message /\ Openings(h, k + 1) \subseteq Y
        BY <2>1 DEF Openings
    <3>2. h \in TaskSending(Y)
      <4>1. h.sent \in Seq(Z) /\ Z \subseteq Y
          BY <2>3 DEF TaskSending
      <4> HIDE DEF Y
      <4>2. h.sent \in Seq(Y)
          BY <4>1
      <4> QED
          BY <2>3, <4>2 DEF TaskSending
    <3> HIDE DEF Y, O
    <3>3. new \in TaskSending(Y) /\ Begins(h, new, p, k + 1)
        BY <2>1, <2>9, <3>1, <3>2, BegunDoes
    <3>4. /\ TypeInv'
          /\ \A a \in Node : a # p => node'[a] = node[a]
          /\ node'[p].input = new.input /\ node'[p].round = new.round
          /\ node'[p].rs = new.rs
          /\ \A a \in Node : \A x \in Flying(a)' : x \in Flying(a) \/ (a = p /\ x \in Y)
      <4>1. TypeInv' /\ Ran(p, new, Y)
          BY <1>2, <1>5, <3>1, <3>3, RunDoes
      <4> QED
          BY <4>1 DEF Ran
    <3>5. t = k + 1 /\ k # t /\ ~(t = 0) /\ t - 1 = k /\ nd.round < t /\ 0 <= t
      <4> HIDE DEF k
      <4>1. 0 <= k /\ k \in Int /\ nd.round <= k /\ nd.round \in Int
          BY <2>1, <2>5
      <4> QED
          BY <4>1
    <3> HIDE DEF t
    <3>6. \A x, c : StartVal(x, c, t) = x.rs[c][k].term
        BY <3>5 DEF StartVal
    <3>7. /\ node'[p].round = t
          /\ \A c \in Checkpoints, r \in 0 .. Rounds :
                /\ r = t => node'[p].rs[c][r] = OwnStart(StartVal(h, c, t), p).rs
                /\ r # t => node'[p].rs[c][r] = h.rs[c][r]
        BY <3>3, <3>4, <3>5 DEF Begins
    <3>8. \A c \in Checkpoints : StartVal(node'[p], c, t) = StartVal(h, c, t)
        BY <2>1, <3>5, <3>6, <3>7
    <3>9. \A c \in Checkpoints : StartVal(h, c, t) \in AnyVal
      <4> SUFFICES ASSUME NEW c \in Checkpoints PROVE h.rs[c][k].term \in AnyVal
          BY <3>6
      <4>1. h.rs[c][k].term \in AnyVal \union {NoVal}
          BY <2>1, <2>3, TaskShape
      <4> QED
          BY <2>9, <4>1 DEF TerminatedRound, Terminated
    <3>10. Opens(p)
      <4>1. t <= Rounds => t \in 0 .. Rounds
          BY <2>1, <3>5
      <4>2. node[p].round < node'[p].round
          BY <3>5, <3>7 DEF nd
      <4> QED
          BY <3>5, <3>7, <3>8, <3>9, <4>1, <4>2 DEF Opens
    <3>11. \A c \in DOMAIN m.vals : Counts(p, q, m, c)
        BY <2>1, <2>6, <3>5, <3>7
    <3>12. \A a \in Node : node'[a].input = node[a].input
        BY <2>3, <3>3, <3>4 DEF Begins, Hears, SameTask, nd
    <3>13. ASSUME NEW c \in Checkpoints, NEW r \in 0 .. Rounds
           PROVE  \/ node'[p].rs[c][r] = node[p].rs[c][r]
                  \/ m.round = r /\ Counts(p, q, m, c)
                  \/ r = node'[p].round /\ Opens(p)
      <4>1. CASE r = t
          BY <3>7, <3>10, <4>1
      <4>2. CASE r # t /\ r = k /\ c \in DOMAIN m.vals
          BY <3>11, <4>2
      <4>3. CASE r # t /\ (r # k \/ c \notin DOMAIN m.vals)
          BY <2>3, <3>7, <4>3 DEF Hears, nd
      <4> QED
          BY <4>1, <4>2, <4>3
    <3>14. ASSUME NEW x \in Y PROVE Opening(p, x) \/ Answering(p, x)
      <4>1. CASE x \in Z
          BY <2>7, <3>11, <4>1
      <4>2. CASE x \in O
        <5>1. x \in Message /\ DOMAIN x.vals \subseteq Checkpoints
            BY <4>2 DEF O, Openings, Message
        <5>2. x \in Openings(node'[p], t)
            BY <3>5, <3>8, <4>2, <5>1 DEF O, Openings
        <5> QED
            BY <3>7, <3>10, <5>2 DEF Opening
      <4> QED
          BY <4>1, <4>2 DEF Y
    <3>15. Moves(p)
        BY <1>4, <3>4, <3>10, <3>12, <3>13, <3>14 DEF Moves
    <3> QED
        BY <3>4, <3>15
  <2> QED
      BY <2>3, <2>8, <2>9
<1> QED
    BY <1>7, <1>8

LEMMA ForwardDoes ==
    ASSUME TypeInv, NEW p \in Node, ForwardResult(p)
    PROVE  TypeInv' /\ Quiet
<1> DEFINE done == [node[p] EXCEPT !.out = 0]
<1>1. node[p] \in Task /\ node \in [Node -> Task]
    BY DEF TypeInv
<1>2. /\ done \in Task /\ done.input = node[p].input /\ done.round = node[p].round
      /\ done.rs = node[p].rs
    BY <1>1 DEF Task
<1>3. node' = [node EXCEPT ![p] = done]
    BY DEF ForwardResult
<1> HIDE DEF done
<1>4. node' \in [Node -> Task] /\ node'[p] = done /\ \A a \in Node : a # p => node'[a] = node[a]
    BY <1>1, <1>2, <1>3
<1>5. link' = link /\ crashed' = crashed /\ output' = output \union {p}
    BY DEF ForwardResult
<1>6. TypeInv'
    BY <1>4, <1>5 DEF TypeInv
<1>7. \A a \in Node : Flying(a)' = Flying(a)
    BY <1>5 DEF Flying
<1>8. \A a \in Node : /\ node'[a].input = node[a].input
                      /\ node'[a].round = node[a].round /\ node'[a].rs = node[a].rs
    BY <1>2, <1>4
<1> QED
    BY <1>6, <1>7, <1>8 DEF Quiet

LEMMA CrashDoes ==
    ASSUME TypeInv, NEW p \in Node, Crash(p)
    PROVE  TypeInv' /\ Quiet
<1>1. PICK kept \in [Node -> UNION {0 .. Len(link[p][q]) : q \in Node}] :
         /\ \A q \in Node : kept[q] <= Len(link[p][q])
         /\ link' = [link EXCEPT ![p] = [q \in Node |-> SubSeq(@[q], 1, kept[q])]]
    BY DEF Crash
<1> DEFINE row == [q \in Node |-> SubSeq(link[p][q], 1, kept[q])]
<1>2. /\ link \in [Node -> [Node -> Seq(Message)]] /\ link[p][p] = <<>>
      /\ \A a \in Node : link[a][a] = <<>>
    BY DEF TypeInv
<1>3. ASSUME NEW q \in Node
      PROVE  /\ row[q] \in Seq(Message)
             /\ \A i \in DOMAIN row[q] :
                   i \in DOMAIN link[p][q] /\ row[q][i] = link[p][q][i]
    <2>1. kept[q] \in UNION {0 .. Len(link[p][b]) : b \in Node}
        BY <1>1
    <2>2. PICK b \in Node : kept[q] \in 0 .. Len(link[p][b])
        BY <2>1
    <2>3. link[p][q] \in Seq(Message) /\ link[p][b] \in Seq(Message)
        BY <1>2
    <2>4. kept[q] \in 0 .. Len(link[p][q])
        BY <1>1, <2>2, <2>3, LenProperties
    <2> QED
        BY <2>3, <2>4, PrefixOf
<1>4. link' = [link EXCEPT ![p] = row]
    BY <1>1
<1>5. row[p] = <<>>
  <2>1. row[p] \in Seq(Message) /\ \A i \in DOMAIN row[p] : i \in DOMAIN <<>>
      BY <1>2, <1>3
  <2> HIDE DEF row
  <2>2. Len(row[p]) \in Nat /\ DOMAIN row[p] = 1 .. Len(row[p])
      BY <2>1, LenProperties
  <2>3. DOMAIN row[p] = {}
      BY <2>1
  <2>4. Len(row[p]) = 0
    <3> DEFINE n == Len(row[p])
    <3>1. n \in Nat /\ 1 .. n = {}
        BY <2>2, <2>3
    <3> HIDE DEF n
    <3>2. 1 \notin 1 .. n
        BY <3>1
    <3>3. n = 0
        BY <3>1, <3>2
    <3> QED
        BY <3>3 DEF n
  <2> QED
      BY <2>1, <2>4, EmptySeq
<1>6. row \in [Node -> Seq(Message)]
    BY <1>3
<1> HIDE DEF row
<1>7. /\ link' \in [Node -> [Node -> Seq(Message)]] /\ link'[p] = row
      /\ \A a \in Node : a # p => link'[a] = link[a]
    BY <1>2, <1>4, <1>6
<1>8. \A a \in Node : link'[a][a] = <<>>
    BY <1>2, <1>5, <1>7
<1>9. node' = node /\ output' = output /\ crashed' = crashed \union {p}
    BY DEF Crash
<1>10. TypeInv'
    BY <1>7, <1>8, <1>9 DEF TypeInv
<1>11. ASSUME NEW a \in Node, NEW x \in Flying(a)' PROVE x \in Flying(a)
  <2>1. PICK b \in Node : \E i \in DOMAIN link'[a][b] : x = link'[a][b][i]
      BY <1>11 DEF Flying
  <2>2. PICK i \in DOMAIN link'[a][b] : x = link'[a][b][i]
      BY <2>1
  <2>3. i \in DOMAIN link[a][b] /\ x = link[a][b][i]
    <3>1. CASE a = p
        BY <1>3, <1>7, <2>2, <3>1
    <3>2. CASE a # p
        BY <1>7, <2>2, <3>2
    <3> QED
        BY <3>1, <3>2
  <2> QED
      BY <2>3, InFlight
<1> QED
    BY <1>9, <1>10, <1>11 DEF Quiet

\* Every step is a quiet one or one that a node moves by.
LEMMA StepDoes ==
    ASSUME TypeInv, [Next]_vars
    PROVE  TypeInv' /\ (Quiet \/ \E p \in Node : Moves(p))
<1>1. CASE UNCHANGED vars
  <2>1. node' = node /\ link' = link /\ output' = output /\ crashed' = crashed
      BY <1>1 DEF vars
  <2>2. TypeInv'
      BY <2>1 DEF TypeInv
  <2>3. \A a \in Node : Flying(a)' = Flying(a)
      BY <2>1 DEF Flying
  <2> QED
      BY <2>1, <2>2, <2>3 DEF Quiet
<1>2. ASSUME NEW p \in Node, Step(p) PROVE TypeInv' /\ (Quiet \/ Moves(p))
  <2>1. CASE Join(p)
      BY <2>1, JoinDoes
  <2>2. CASE ForwardResult(p)
      BY <2>2, ForwardDoes
  <2>3. ASSUME NEW q \in Node, Deliver(q, p) PROVE TypeInv' /\ (Quiet \/ Moves(p))
      BY <2>3, DeliverDoes
  <2> QED
      BY <1>2, <2>1, <2>2, <2>3 DEF Step
<1>3. ASSUME NEW p \in Node, Crash(p) PROVE TypeInv' /\ Quiet
    BY <1>3, CrashDoes
<1> QED
    BY <1>1, <1>2, <1>3 DEF Next

-----------------------------------------------------------------------------
(* Which rounds have begun, and with what.                                 *)

\* A message that is counted makes the round state as follows.
LEMMA CountedDoes ==
    ASSUME NEW S \in SUBSET AnyVal, NEW T, Spans(T, S), NEW rs \in StateOf(S, T),
           NEW kind, NEW v \in S, NEW q \in Node, NEW p \in Node,
           NEW new, new = Counted(rs, kind, v, q, p),
           NEW e, e = HearEcho(rs, v, q, MinThreshold, HighThreshold)
    PROVE  /\ new \in StateOf(S, T) /\ e.rs \in StateOf(S, T)
           /\ kind = "ECHO2" => Echo2Does(rs, v, q, new)
           /\ kind # "ECHO2" =>
                 /\ EchoDoes(rs, v, q, e)
                 /\ e.echo2 = NoVal => new = e.rs
                 /\ e.echo2 # NoVal => e.echo2 = v /\ Echo2Does(e.rs, v, p, new)
<1>1. e.rs \in StateOf(S, T) /\ EchoDoes(rs, v, q, e)
    BY HearEchoDoes
<1>2. CASE kind = "ECHO2"
  <2>1. new = HearEcho2(rs, v, q, HighThreshold)
      BY <1>2 DEF Counted
  <2> QED
      BY <1>1, <1>2, <2>1, HearEcho2Does
<1>3. CASE kind # "ECHO2" /\ e.echo2 = NoVal
  <2>1. new = e.rs
      BY <1>3 DEF Counted
  <2> QED
      BY <1>1, <1>3, <2>1
<1>4. CASE kind # "ECHO2" /\ e.echo2 # NoVal
  <2>1. new = HearEcho2(e.rs, e.echo2, p, HighThreshold)
      BY <1>4 DEF Counted
  <2>2. e.echo2 = v
      BY <1>1, <1>4 DEF EchoDoes
  <2>3. new = HearEcho2(e.rs, v, p, HighThreshold)
      BY <2>1, <2>2
  <2> QED
      BY <1>1, <1>4, <2>2, <2>3, HearEcho2Does
<1> QED
    BY <1>2, <1>3, <1>4

LEMMA HasFirst ==
    ASSUME NEW S, NEW T, NEW rs \in StateOf(S, T)
    PROVE  rs.slots # <<>> <=> 1 \in DOMAIN rs.slots
<1>1. CASE rs.slots = <<>>
    BY <1>1
<1>2. CASE rs.slots # <<>>
  <2>1. rs # NoState
      BY <1>2 DEF NoState
  <2> QED
      BY <1>2, <2>1, StateShape
<1> QED
    BY <1>1, <1>2

\* Whether a node counts its own ECHO1 does not change with what others say.
LEMMA GrowsOwn ==
    ASSUME NEW S, NEW T, NEW rs \in StateOf(S, T), NEW new \in StateOf(S, T),
           NEW v, NEW E1, NEW E2, NEW p, p \notin E1, Grows(rs, new, v, E1, E2)
    PROVE  (1 \in DOMAIN new.slots /\ p \in new.slots[1].echo1)
               <=> (1 \in DOMAIN rs.slots /\ p \in rs.slots[1].echo1)
    BY DEF Grows

LEMMA CountedOwn ==
    ASSUME NEW S \in SUBSET AnyVal, NEW T, Spans(T, S), NEW rs \in StateOf(S, T),
           NEW kind, NEW v \in S, NEW q \in Node, NEW p \in Node, q # p,
           NEW new, new = Counted(rs, kind, v, q, p)
    PROVE  (1 \in DOMAIN new.slots /\ p \in new.slots[1].echo1)
               <=> (1 \in DOMAIN rs.slots /\ p \in rs.slots[1].echo1)
<1> DEFINE e == HearEcho(rs, v, q, MinThreshold, HighThreshold)
<1>1. e = HearEcho(rs, v, q, MinThreshold, HighThreshold)
    OBVIOUS
<1> HIDE DEF e
<1>2. /\ new \in StateOf(S, T) /\ e.rs \in StateOf(S, T)
      /\ kind = "ECHO2" => Echo2Does(rs, v, q, new)
      /\ kind # "ECHO2" =>
            /\ EchoDoes(rs, v, q, e)
            /\ e.echo2 = NoVal => new = e.rs
            /\ e.echo2 # NoVal => e.echo2 = v /\ Echo2Does(e.rs, v, p, new)
    BY <1>1, CountedDoes
<1>3. CASE kind = "ECHO2"
  <2>1. Grows(rs, new, v, {}, {q}) /\ p \notin {}
      BY <1>2, <1>3 DEF Echo2Does
  <2> QED
      BY <1>2, <2>1, GrowsOwn
<1>4. CASE kind # "ECHO2"
  <2>1. Grows(rs, e.rs, v, {q}, {}) /\ p \notin {q}
      BY <1>2, <1>4 DEF EchoDoes
  <2>2. (1 \in DOMAIN e.rs.slots /\ p \in e.rs.slots[1].echo1)
            <=> (1 \in DOMAIN rs.slots /\ p \in rs.slots[1].echo1)
      BY <1>2, <2>1, GrowsOwn
  <2>3. CASE e.echo2 = NoVal
      BY <1>2, <1>4, <2>2, <2>3
  <2>4. CASE e.echo2 # NoVal
    <3> DEFINE mid == e.rs
    <3>1. mid \in StateOf(S, T) /\ Grows(mid, new, v, {}, {p}) /\ p \notin {}
        BY <1>2, <1>4, <2>4 DEF Echo2Does
    <3> HIDE DEF mid
    <3>2. (1 \in DOMAIN new.slots /\ p \in new.slots[1].echo1)
              <=> (1 \in DOMAIN mid.slots /\ p \in mid.slots[1].echo1)
        BY <1>2, <3>1, GrowsOwn
    <3> QED
        BY <2>2, <3>2 DEF mid
  <2> QED
      BY <2>3, <2>4
<1> QED
    BY <1>3, <1>4

\* The round states and inputs of a task, and of a message.
LEMMA StateIn ==
    ASSUME TypeInv
    PROVE  /\ \A a \in Node, c \in Checkpoints, r \in 0 .. Rounds :
                 node[a].rs[c][r] \in StateOf(AnyVal, AnyVal)
           /\ \A a \in Node : node[a].round \in -1 .. Rounds + 1
           /\ \A a \in Node, c \in Checkpoints : node[a].input[c] \in {0, MaxInput}
<1>1. \A a \in Node : node[a] \in Task
    BY DEF TypeInv
<1>2. \A nd \in Task : /\ nd.rs \in [Checkpoints -> [0 .. Rounds -> StateOf(AnyVal, AnyVal)]]
                        /\ nd.round \in -1 .. Rounds + 1
                        /\ nd.input \in [Checkpoints -> {0, MaxInput}]
    BY DEF Task
<1>3. \A a \in Node : /\ node[a].rs \in [Checkpoints -> [0 .. Rounds -> StateOf(AnyVal, AnyVal)]]
                      /\ node[a].round \in -1 .. Rounds + 1
                      /\ node[a].input \in [Checkpoints -> {0, MaxInput}]
    BY <1>1, <1>2
<1>4. \A a \in Node, c \in Checkpoints : node[a].input[c] \in {0, MaxInput}
    BY <1>3
<1>5. \A a \in Node, c \in Checkpoints, r \in 0 .. Rounds :
         node[a].rs[c][r] \in StateOf(AnyVal, AnyVal)
  <2>1. \A a \in Node :
           node[a].rs \in [Checkpoints -> [0 .. Rounds -> StateOf(AnyVal, AnyVal)]]
      BY <1>3
  <2> QED
      BY <2>1
<1> QED
    BY <1>3, <1>4, <1>5

LEMMA StateNext ==
    ASSUME TypeInv'
    PROVE  /\ \A a \in Node, c \in Checkpoints, r \in 0 .. Rounds :
                 node'[a].rs[c][r] \in StateOf(AnyVal, AnyVal)
           /\ \A a \in Node : node'[a].round \in -1 .. Rounds + 1
<1>1. \A a \in Node : node'[a] \in Task
    BY DEF TypeInv
<1>2. \A nd \in Task : /\ nd.rs \in [Checkpoints -> [0 .. Rounds -> StateOf(AnyVal, AnyVal)]]
                        /\ nd.round \in -1 .. Rounds + 1
    BY DEF Task
<1>3. \A a \in Node : /\ node'[a].rs \in [Checkpoints -> [0 .. Rounds -> StateOf(AnyVal, AnyVal)]]
                      /\ node'[a].round \in -1 .. Rounds + 1
    BY <1>1, <1>2
<1>4. \A a \in Node, c \in Checkpoints, r \in 0 .. Rounds :
         node'[a].rs[c][r] \in StateOf(AnyVal, AnyVal)
    BY <1>3
<1> QED
    BY <1>3, <1>4

LEMMA FlyingIn ==
    ASSUME TypeInv, NEW a \in Node, NEW m \in Flying(a)
    PROVE  /\ m \in Message /\ m.vals \in Vals /\ m.round \in 0 .. Rounds
           /\ DOMAIN m.vals \subseteq Checkpoints
           /\ \A c \in DOMAIN m.vals : m.vals[c] \in AnyVal
<1>1. PICK b \in Node : \E i \in DOMAIN link[a][b] : m = link[a][b][i]
    BY DEF Flying
<1>2. link[a][b] \in Seq(Message)
    BY DEF TypeInv
<1>3. m \in Message
    BY <1>1, <1>2
<1> QED
    BY <1>3, ValsShape DEF Message, Vals

\* A round that has begun stays so, with the value it began with; only the round that
\* the node is in after the step can be new.
LEMMA BeganMoves ==
    ASSUME TypeInv, TypeInv', BegunInv, NEW p \in Node, Moves(p),
           NEW a \in Node, NEW c \in Checkpoints, NEW r \in 0 .. Rounds
    PROVE  /\ Began(a, c, r) =>
                 Began(a, c, r)' /\ StartVal(node'[a], c, r) = StartVal(node[a], c, r)
           /\ Began(a, c, r)' => Began(a, c, r) \/ (a = p /\ r = node'[p].round /\ Opens(p))
<1>1. CASE a # p
  <2>1. node'[a] = node[a]
      BY <1>1 DEF Moves
  <2> QED
      BY <2>1 DEF Began
<1>2. CASE a = p
  <2>1. \A k \in 0 .. Rounds :
           \/ node'[p].rs[c][k] = node[p].rs[c][k]
           \/ \E q \in Node : \E m \in Flying(q) : m.round = k /\ Counts(p, q, m, c)
           \/ k = node'[p].round /\ Opens(p)
      BY DEF Moves
  <2>2. /\ \A k \in 0 .. Rounds : node[p].rs[c][k] \in StateOf(AnyVal, AnyVal)
        /\ node[p].round \in Int
      BY StateIn
  <2>3. \A k \in 0 .. Rounds : node'[p].rs[c][k] \in StateOf(AnyVal, AnyVal)
      BY StateNext
  <2>4. ASSUME NEW q \in Node, NEW m \in Flying(q), m.round = r, Counts(p, q, m, c)
        PROVE  Began(p, c, r)' <=> Began(p, c, r)
    <3>1. /\ m.vals[c] \in AnyVal /\ q # p
          /\ node'[p].rs[c][r] = Counted(node[p].rs[c][r], m.kind, m.vals[c], q, p)
        BY <2>4, FlyingIn DEF Counts
    <3>2. (1 \in DOMAIN node'[p].rs[c][r].slots /\ p \in node'[p].rs[c][r].slots[1].echo1)
              <=> (1 \in DOMAIN node[p].rs[c][r].slots
                   /\ p \in node[p].rs[c][r].slots[1].echo1)
        BY <2>2, <3>1, SpansValues, CountedOwn
    <3>3. /\ node'[p].rs[c][r].slots # <<>> <=> 1 \in DOMAIN node'[p].rs[c][r].slots
          /\ node[p].rs[c][r].slots # <<>> <=> 1 \in DOMAIN node[p].rs[c][r].slots
        BY <2>2, <2>3, HasFirst
    <3> QED
        BY <3>2, <3>3 DEF Began
  <2>5. Began(p, c, r)' => Began(p, c, r) \/ (r = node'[p].round /\ Opens(p))
    <3>1. CASE node'[p].rs[c][r] = node[p].rs[c][r]
        BY <3>1 DEF Began
    <3> QED
        BY <2>1, <2>4, <3>1
  <2>6. ASSUME Began(p, c, r)
        PROVE  Began(p, c, r)' /\ StartVal(node'[p], c, r) = StartVal(node[p], c, r)
    <3>1. r <= node[p].round
        BY <2>6 DEF BegunInv
    <3>2. ~(r = node'[p].round /\ Opens(p))
        BY <2>2, <3>1 DEF Opens
    <3>3. Began(p, c, r)'
      <4>1. CASE node'[p].rs[c][r] = node[p].rs[c][r]
          BY <2>6, <4>1 DEF Began
      <4> QED
          BY <2>1, <2>4, <2>6, <3>2, <4>1
    <3>4. CASE r = 0
      <4>1. node'[p].input = node[p].input
          BY DEF Moves
      <4> QED
          BY <3>3, <3>4, <4>1 DEF StartVal
    <3>5. CASE r # 0
      <4> DEFINE k == r - 1
      <4>1. k \in 0 .. Rounds /\ k < node[p].round /\ k \in Int
          BY <2>2, <3>1, <3>5, BinAAAssumption
      <4>2. r # 0 /\ \A nd : StartVal(nd, c, r) = nd.rs[c][k].term
          BY <3>5 DEF StartVal
      <4> HIDE DEF k
      <4>3. ~(k = node'[p].round /\ Opens(p))
          BY <2>2, <4>1 DEF Opens
      <4>4. ~ \E q \in Node : \E m \in Flying(q) : m.round = k /\ Counts(p, q, m, c)
          BY <2>2, <4>1 DEF Counts
      <4>5. node'[p].rs[c][k] = node[p].rs[c][k]
          BY <2>1, <4>1, <4>3, <4>4
      <4> QED
          BY <3>3, <4>2, <4>5
    <3> QED
        BY <3>4, <3>5
  <2> QED
      BY <1>2, <2>5, <2>6
<1> QED
    BY <1>1, <1>2

\* What a round has begun with is never forgotten.
LEMMA StartValsGrow ==
    ASSUME TypeInv, TypeInv', BegunInv, NEW p \in Node, Moves(p),
           NEW c \in Checkpoints, NEW r \in 0 .. Rounds
    PROVE  StartVals(r, c) \subseteq StartVals(r, c)'
<1> SUFFICES ASSUME NEW a \in Node, Began(a, c, r)
             PROVE  StartVal(node[a], c, r) \in StartVals(r, c)'
    BY DEF StartVals
<1>1. Began(a, c, r)' /\ StartVal(node'[a], c, r) = StartVal(node[a], c, r)
    BY BeganMoves
<1> QED
    BY <1>1 DEF StartVals

LEMMA BegunMoves ==
    ASSUME TypeInv, TypeInv', BegunInv, NEW p \in Node, Moves(p)
    PROVE  BegunInv'
<1> SUFFICES ASSUME NEW a \in Node, NEW c \in Checkpoints, NEW r \in 0 .. Rounds,
                    Began(a, c, r)'
             PROVE  r <= node'[a].round /\ StartVal(node'[a], c, r) # NoVal
    BY DEF BegunInv
<1>1. CASE Began(a, c, r)
  <2>1. /\ r <= node[a].round /\ StartVal(node[a], c, r) # NoVal
        /\ StartVal(node'[a], c, r) = StartVal(node[a], c, r)
      BY <1>1, BeganMoves DEF BegunInv
  <2>2. node[a].round \in Int /\ node'[a].round \in Int
      BY StateIn, StateNext
  <2>3. node[a].round <= node'[a].round
    <3>1. CASE a # p
      <4>1. node'[a] = node[a]
          BY <3>1 DEF Moves
      <4> QED
          BY <2>2, <4>1
    <3>2. CASE a = p
        BY <2>2, <3>2 DEF Moves, Opens
    <3> QED
        BY <3>1, <3>2
  <2> QED
      BY <2>1, <2>2, <2>3
<1>2. CASE a = p /\ r = node'[p].round /\ Opens(p)
  <2>1. StartVal(node'[p], c, r) \in AnyVal /\ NoVal \notin AnyVal
      BY <1>2, ValuesFinite DEF Opens, NoVal
  <2> QED
      BY <1>2, <2>1
<1> QED
    BY <1>1, <1>2, BeganMoves

-----------------------------------------------------------------------------
(* What is counted and said in a round, when what it begins with is known. *)

LEMMA FlyingNext ==
    ASSUME TypeInv', NEW a \in Node, NEW m \in Flying(a)'
    PROVE  /\ m \in Message /\ m.round \in 0 .. Rounds /\ DOMAIN m.vals \subseteq Checkpoints
           /\ \A c \in DOMAIN m.vals : m.vals[c] \in AnyVal
<1>1. PICK b \in Node : \E i \in DOMAIN link'[a][b] : m = link'[a][b][i]
    BY DEF Flying
<1>2. link'[a][b] \in Seq(Message)
    BY DEF TypeInv
<1>3. m \in Message
    BY <1>1, <1>2
<1>4. m.vals \in Vals
    BY <1>3 DEF Message, Vals
<1> QED
    BY <1>3, <1>4, ValsShape DEF Message

LEMMA StateOfGrows ==
    ASSUME NEW S, NEW T, NEW U, NEW V, S \subseteq U, T \subseteq V,
           NEW rs \in StateOf(S, T)
    PROVE  rs \in StateOf(U, V)
<1>1. /\ rs \in [slots : Seq(Slot(S)), echo1vals : SUBSET S, term : T \union {NoVal}]
      /\ Len(rs.slots) <= 2 /\ (rs.slots = <<>> => rs = NoState)
      /\ Len(rs.slots) = 2 => rs.slots[1].val # rs.slots[2].val
    BY DEF StateOf
<1>2. Slot(S) \subseteq Slot(U)
    BY DEF Slot
<1>3. rs.slots \in Seq(Slot(U))
  <2>1. rs.slots \in Seq(Slot(S))
      BY <1>1
  <2> QED
      BY <1>2, <2>1
<1>4. rs \in [slots : Seq(Slot(U)), echo1vals : SUBSET U, term : V \union {NoVal}]
    BY <1>1, <1>3
<1> QED
    BY <1>1, <1>4 DEF StateOf

\* An answer repeats the value of the message that is counted.
LEMMA AnswerSays ==
    ASSUME TypeInv, NEW p \in Node, NEW x \in Message, Answering(p, x), NEW c \in DOMAIN x.vals
    PROVE  \E q \in Node : \E m \in Flying(q) :
              /\ m.kind = "ECHO1" /\ m.round = x.round /\ Counts(p, q, m, c)
              /\ x.vals[c] = m.vals[c] /\ x.vals[c] # NoVal
              /\ x.kind = "ECHO1" =>
                    x.vals[c] = HearEcho(node[p].rs[c][m.round], m.vals[c], q,
                                         MinThreshold, HighThreshold).echo1
              /\ x.kind = "ECHO2" =>
                    x.vals[c] = HearEcho(node[p].rs[c][m.round], m.vals[c], q,
                                         MinThreshold, HighThreshold).echo2
<1>1. PICK q \in Node : \E m \in Flying(q) :
         x \in Answers(node[p], q, m) /\ \A d \in DOMAIN x.vals : Counts(p, q, m, d)
    BY DEF Answering
<1>2. PICK m \in Flying(q) :
         x \in Answers(node[p], q, m) /\ \A d \in DOMAIN x.vals : Counts(p, q, m, d)
    BY <1>1
<1> DEFINE e == HearEcho(node[p].rs[c][m.round], m.vals[c], q, MinThreshold, HighThreshold)
           v == m.vals[c]
<1>3. /\ m.kind = "ECHO1" /\ m.round = x.round /\ Counts(p, q, m, c)
      /\ \/ x.kind = "ECHO1" /\ x.vals[c] = e.echo1
         \/ x.kind = "ECHO2" /\ x.vals[c] = e.echo2
    BY <1>2 DEF Answers, CpEcho
<1>4. /\ c \in Checkpoints /\ v \in AnyVal /\ m.round \in 0 .. Rounds
      /\ x.vals[c] \in AnyVal
  <2>1. x.vals \in Vals
      BY DEF Message, Vals
  <2>2. c \in DOMAIN m.vals
      BY <1>3 DEF Counts
  <2> QED
      BY <2>1, <2>2, FlyingIn, ValsShape
<1>5. node[p].rs[c][m.round] \in StateOf(AnyVal, AnyVal)
    BY <1>4, StateIn
<1> DEFINE rs == node[p].rs[c][m.round]
<1>6. EchoDoes(rs, v, q, e)
  <2>1. e = HearEcho(rs, v, q, MinThreshold, HighThreshold)
      OBVIOUS
  <2>2. rs \in StateOf(AnyVal, AnyVal) /\ v \in AnyVal
      BY <1>4, <1>5
  <2> HIDE DEF e, rs, v
  <2> QED
      BY <2>1, <2>2, SpansValues, HearEchoDoes
<1>7. e.echo1 \in {v, NoVal} /\ e.echo2 \in {v, NoVal} /\ NoVal \notin AnyVal
  <2>1. NoVal \notin AnyVal
      BY ValuesFinite DEF NoVal
  <2> HIDE DEF e, rs, v
  <2> QED
      BY <1>6, <2>1 DEF EchoDoes
<1>8. x.vals[c] = v /\ x.vals[c] # NoVal
    BY <1>3, <1>4, <1>7
<1>9. "ECHO1" # "ECHO2"
    OBVIOUS
<1> QED
    BY <1>3, <1>8, <1>9

LEMMA StateMoves ==
    ASSUME TypeInv, TypeInv', NEW p \in Node, Moves(p), NEW a \in Node,
           NEW c \in Checkpoints, NEW r \in 0 .. Rounds,
           NEW S \in SUBSET AnyVal, NEW T, Spans(T, S),
           node[a].rs[c][r] \in StateOf(S, T),
           \A b \in Node : \A m \in Flying(b) :
              (m.round = r /\ c \in DOMAIN m.vals) => m.vals[c] \in S,
           (Opens(p) /\ r = node'[p].round) => StartVal(node'[p], c, r) \in S
    PROVE  /\ node'[a].rs[c][r] \in StateOf(S, T)
           /\ \A m \in Flying(a)' : (m.round = r /\ c \in DOMAIN m.vals) => m.vals[c] \in S
<1>1. node'[a].rs[c][r] \in StateOf(S, T)
  <2>1. CASE a # p
    <3>1. node'[a] = node[a]
        BY <2>1 DEF Moves
    <3> QED
        BY <3>1
  <2>2. CASE a = p
    <3>1. CASE node'[p].rs[c][r] = node[p].rs[c][r]
        BY <2>2, <3>1
    <3>2. ASSUME NEW q \in Node, NEW m \in Flying(q), m.round = r, Counts(p, q, m, c)
          PROVE  node'[p].rs[c][r] \in StateOf(S, T)
      <4>1. /\ m.vals[c] \in S
            /\ node'[p].rs[c][r] = Counted(node[p].rs[c][r], m.kind, m.vals[c], q, p)
          BY <3>2 DEF Counts
      <4>2. node[p].rs[c][r] \in StateOf(S, T)
          BY <2>2
      <4> QED
          BY <4>1, <4>2, CountedDoes
    <3>3. CASE r = node'[p].round /\ Opens(p)
      <4> DEFINE v == StartVal(node'[p], c, r)
      <4>1. v \in S
          BY <3>3
      <4>2. node'[p].rs[c][r] = OwnStart(v, p).rs
          BY <3>3, BinAAAssumption DEF Opens
      <4> HIDE DEF v
      <4>3. OwnStart(v, p).rs \in StateOf(S, T)
          BY <4>1, OwnStartIn
      <4> QED
          BY <2>2, <4>2, <4>3
    <3> QED
        BY <2>2, <3>1, <3>2, <3>3 DEF Moves
  <2> QED
      BY <2>1, <2>2
<1>2. ASSUME NEW m \in Flying(a)', m.round = r, c \in DOMAIN m.vals
      PROVE  m.vals[c] \in S
  <2>1. \/ m \in Flying(a)
        \/ a = p /\ Opening(p, m)
        \/ a = p /\ Answering(p, m)
      BY <1>2 DEF Moves
  <2>2. CASE m \in Flying(a)
      BY <1>2, <2>2
  <2>3. CASE Opening(p, m)
      BY <1>2, <2>3 DEF Opening, Openings
  <2>4. CASE Answering(p, m)
    <3>1. m \in Message
        BY <1>2, FlyingNext
    <3>2. PICK q \in Node : \E x \in Flying(q) :
             x.round = m.round /\ Counts(p, q, x, c) /\ m.vals[c] = x.vals[c]
        BY <1>2, <2>4, <3>1, AnswerSays
    <3>3. PICK x \in Flying(q) :
             x.round = m.round /\ Counts(p, q, x, c) /\ m.vals[c] = x.vals[c]
        BY <3>2
    <3> QED
        BY <1>2, <3>3 DEF Counts
  <2> QED
      BY <2>1, <2>2, <2>3, <2>4
<1> QED
    BY <1>1, <1>2

\* Whoever begins a round counts its own ECHO1, so the round has begun with its value.
LEMMA OpensBegan ==
    ASSUME NEW p \in Node, NEW c \in Checkpoints, NEW r \in 0 .. Rounds,
           Opens(p), r = node'[p].round
    PROVE  /\ Began(p, c, r)' /\ StartVal(node'[p], c, r) \in AnyVal
           /\ StartVal(node'[p], c, r) \in StartVals(r, c)'
<1> DEFINE v == StartVal(node'[p], c, r)
<1>1. v \in AnyVal /\ node'[p].rs[c][r] = OwnStart(v, p).rs
    BY BinAAAssumption DEF Opens
<1> HIDE DEF v
<1> DEFINE own == OwnStart(v, p)
<1>2. own = OwnStart(v, p)
    OBVIOUS
<1> HIDE DEF own
<1>3. own.rs.slots # <<>> /\ own.rs.slots[1].echo1 = {p}
    BY <1>1, <1>2, OwnStartIs
<1>4. Began(p, c, r)'
    BY <1>1, <1>2, <1>3 DEF Began
<1>5. StartVal(node'[p], c, r) \in {StartVal(node'[a], c, r) : a \in {q \in Node : Began(q, c, r)'}}
    BY <1>4
<1> QED
    BY <1>1, <1>4, <1>5 DEF v, StartVals

LEMMA SpansBetween ==
    ASSUME NEW S \in SUBSET AnyVal
    PROVE  Between(S) \in SUBSET AnyVal /\ Spans(Between(S), S)
<1>1. AnyVal \subseteq Nat
    BY ValuesFinite
<1>2. \A x \in S : x \in Between(S)
    BY <1>1 DEF Between
<1>3. ASSUME NEW x \in S, NEW y \in S, x < y PROVE (x + y) \div 2 \in Between(S)
    <2>1. (x + y) \div 2 \in AnyVal
        BY <1>3, SpansValues DEF Spans
    <2>2. x <= (x + y) \div 2 /\ (x + y) \div 2 <= y
        BY <1>1, <1>3
    <2> QED
        BY <2>1, <2>2 DEF Between
<1> QED
    BY <1>2, <1>3 DEF Spans, Between

LEMMA StartValsNext ==
    ASSUME TypeInv', BegunInv', NEW r \in 0 .. Rounds, NEW c \in Checkpoints
    PROVE  StartVals(r, c)' \in SUBSET AnyVal
<1> SUFFICES ASSUME NEW a \in Node, Began(a, c, r)' PROVE StartVal(node'[a], c, r) \in AnyVal
    BY DEF StartVals
<1>1. StartVal(node'[a], c, r) # NoVal
    BY DEF BegunInv
<1>2. CASE r = 0
  <2>1. node'[a] \in Task
      BY DEF TypeInv
  <2>2. node'[a].input \in [Checkpoints -> {0, MaxInput}]
      BY <2>1 DEF Task
  <2>3. 0 \in AnyVal /\ MaxInput \in AnyVal
    <3>1. MaxInput \in Nat
        BY ValuesFinite
    <3> HIDE DEF MaxInput
    <3> QED
        BY <3>1 DEF AnyVal
  <2> QED
      BY <1>2, <2>2, <2>3 DEF StartVal
<1>3. CASE r # 0
  <2> DEFINE k == r - 1
  <2>1. k \in 0 .. Rounds
      BY <1>3, BinAAAssumption
  <2>2. StartVal(node'[a], c, r) = node'[a].rs[c][k].term
      BY <1>3 DEF StartVal
  <2> HIDE DEF k
  <2>3. node'[a].rs[c][k] \in StateOf(AnyVal, AnyVal)
      BY <2>1, StateNext
  <2>4. node'[a].rs[c][k].term \in AnyVal \union {NoVal}
      BY <2>3, StateShape
  <2> QED
      BY <1>1, <2>2, <2>4
<1> QED
    BY <1>2, <1>3

LEMMA StartValsIn ==
    ASSUME TypeInv, BegunInv, NEW r \in 0 .. Rounds, NEW c \in Checkpoints
    PROVE  StartVals(r, c) \in SUBSET AnyVal
<1> SUFFICES ASSUME NEW a \in Node, Began(a, c, r) PROVE StartVal(node[a], c, r) \in AnyVal
    BY DEF StartVals
<1>1. StartVal(node[a], c, r) # NoVal
    BY DEF BegunInv
<1>2. CASE r = 0
  <2>1. node[a] \in Task
      BY DEF TypeInv
  <2>2. node[a].input \in [Checkpoints -> {0, MaxInput}]
      BY <2>1 DEF Task
  <2>3. 0 \in AnyVal /\ MaxInput \in AnyVal
    <3>1. MaxInput \in Nat
        BY ValuesFinite
    <3> HIDE DEF MaxInput
    <3> QED
        BY <3>1 DEF AnyVal
  <2> QED
      BY <1>2, <2>2, <2>3 DEF StartVal
<1>3. CASE r # 0
  <2> DEFINE k == r - 1
  <2>1. k \in 0 .. Rounds
      BY <1>3, BinAAAssumption
  <2>2. StartVal(node[a], c, r) = node[a].rs[c][k].term
      BY <1>3 DEF StartVal
  <2> HIDE DEF k
  <2>3. node[a].rs[c][k] \in StateOf(AnyVal, AnyVal)
      BY <2>1, StateIn
  <2>4. node[a].rs[c][k].term \in AnyVal \union {NoVal}
      BY <2>3, StateShape
  <2> QED
      BY <1>1, <2>2, <2>4
<1> QED
    BY <1>2, <1>3

LEMMA ValidMoves ==
    ASSUME TypeInv, TypeInv', BegunInv, BegunInv', ValidInv, NEW p \in Node, Moves(p)
    PROVE  ValidInv'
<1>1. ASSUME NEW a \in Node, NEW c \in Checkpoints, NEW r \in 0 .. Rounds
      PROVE  /\ node'[a].rs[c][r] \in StateOf(StartVals(r, c)', Between(StartVals(r, c)'))
             /\ \A m \in Flying(a)' :
                   (m.round = r /\ c \in DOMAIN m.vals) => m.vals[c] \in StartVals(r, c)'
  <2> DEFINE S == StartVals(r, c)
             W == StartVals(r, c)'
             T == Between(W)
  <2>1. S \subseteq W /\ W \in SUBSET AnyVal
      BY StartValsGrow, StartValsNext
  <2>2. node[a].rs[c][r] \in StateOf(S, Between(S))
      BY DEF ValidInv
  <2>3. \A b \in Node : \A m \in Flying(b) :
           (m.round = r /\ c \in DOMAIN m.vals) => m.vals[c] \in S
      BY DEF ValidInv
  <2>4. (Opens(p) /\ r = node'[p].round) => StartVal(node'[p], c, r) \in W
      BY OpensBegan
  <2> HIDE DEF S, W
  <2>5. Spans(T, W) /\ Between(S) \subseteq T
      BY <2>1, SpansBetween DEF Between
  <2> HIDE DEF T
  <2>6. node[a].rs[c][r] \in StateOf(W, T)
      BY <2>1, <2>2, <2>5, StateOfGrows
  <2>7. \A b \in Node : \A m \in Flying(b) :
           (m.round = r /\ c \in DOMAIN m.vals) => m.vals[c] \in W
      BY <2>1, <2>3
  <2>8. /\ node'[a].rs[c][r] \in StateOf(W, T)
        /\ \A m \in Flying(a)' : (m.round = r /\ c \in DOMAIN m.vals) => m.vals[c] \in W
      BY <2>1, <2>4, <2>5, <2>6, <2>7, StateMoves
  <2> QED
      BY <2>8 DEF W, T
<1>2. ASSUME NEW a \in Node, NEW m \in Flying(a)', NEW c \in DOMAIN m.vals
      PROVE  m.vals[c] \in StartVals(m.round, c)'
  <2>1. m.round \in 0 .. Rounds /\ c \in Checkpoints
      BY FlyingNext
  <2> QED
      BY <1>1, <2>1
<1> QED
    BY <1>1, <1>2 DEF ValidInv

\* The values of a round are twice as far apart as those of the next.
LEMMA SpansGrid ==
    ASSUME NEW r \in 0 .. Rounds
    PROVE  /\ Grid(r) \in SUBSET AnyVal /\ Spans(Grid(r + 1), Grid(r))
           /\ \A x \in Grid(r), y \in Grid(r) : x < y => x < (x + y) \div 2 /\ (x + y) \div 2 < y
<1> DEFINE k == Rounds - r
           u == 2 ^ k
           M == MaxInput
<1>1. /\ k \in 0 .. Rounds /\ Rounds + 1 - r = k + 1 /\ Rounds + 1 - (r + 1) = k
    BY BinAAAssumption
<1>2. u \in Nat \ {0} /\ 2 ^ (k + 1) = 2 * u
    BY <1>1, PowersOfTwo
<1>3. M \in Nat /\ AnyVal = 0 .. M
    BY ValuesFinite DEF AnyVal
<1>4. /\ Grid(r) = {v \in AnyVal : \E j \in AnyVal : v = j * (2 * u)}
      /\ Grid(r + 1) = {v \in AnyVal : \E j \in AnyVal : v = j * u}
    BY <1>1, <1>2 DEF Grid
<1> HIDE DEF k, u, M
<1>5. ASSUME NEW v \in Grid(r) PROVE v \in Grid(r + 1)
  <2>1. PICK j \in AnyVal : v = j * (2 * u) /\ v \in AnyVal
      BY <1>4
  <2>2. j \in Nat /\ v = (2 * j) * u /\ v <= M
      BY <1>2, <1>3, <2>1
  <2>3. 2 * j <= (2 * j) * u
      BY <1>2, <2>2
  <2>4. 2 * j \in AnyVal
      BY <1>3, <2>2, <2>3
  <2> QED
      BY <1>4, <2>1, <2>2, <2>4
<1>6. ASSUME NEW x \in Grid(r), NEW y \in Grid(r), x < y
      PROVE  (x + y) \div 2 \in Grid(r + 1) /\ x < (x + y) \div 2 /\ (x + y) \div 2 < y
  <2>1. PICK i \in AnyVal : x = i * (2 * u) /\ x \in AnyVal
      BY <1>4
  <2>2. PICK j \in AnyVal : y = j * (2 * u) /\ y \in AnyVal
      BY <1>4
  <2>3. i \in Nat /\ j \in Nat /\ x \in Nat /\ y \in Nat /\ u \in Nat
      BY <1>2, <1>3, <2>1, <2>2
  <2> DEFINE s == i + j
             z == s * u
  <2>4. x + y = 2 * z
      BY <2>1, <2>2, <2>3
  <2>5. s \in Nat /\ z \in Nat
      BY <2>3
  <2>6. x = 2 * (i * u) /\ y = 2 * (j * u) /\ i * u \in Nat /\ j * u \in Nat
      BY <2>1, <2>2, <2>3
  <2>7. s <= z
      BY <1>2, <2>3, <2>5
  <2> HIDE DEF s, z
  <2>8. (x + y) \div 2 = z
      BY <2>4, <2>5
  <2> DEFINE a == i * u
             b == j * u
  <2>9. x = 2 * a /\ y = 2 * b /\ a \in Nat /\ b \in Nat
      BY <2>6
  <2> HIDE DEF a, b
  <2>10. x < z /\ z < y
      BY <1>6, <2>4, <2>5, <2>9
  <2>11. z \in AnyVal /\ s \in AnyVal
      BY <1>3, <2>2, <2>3, <2>5, <2>7, <2>10
  <2> QED
      BY <1>4, <2>8, <2>10, <2>11 DEF z
<1> QED
    BY <1>4, <1>5, <1>6 DEF Spans

LEMMA InputsOnGrid == 0 \in Grid(0) /\ MaxInput \in Grid(0)
<1> DEFINE M == MaxInput
<1>1. M \in Nat /\ AnyVal = 0 .. M /\ M = 2 * 2 ^ Rounds /\ 2 ^ Rounds \in Nat \ {0}
    BY ValuesFinite DEF AnyVal
<1>2. Rounds + 1 - 0 = Rounds + 1 /\ M = 2 ^ (Rounds + 1)
    BY BinAAAssumption DEF MaxInput
<1>3. Grid(0) = {v \in AnyVal : \E j \in AnyVal : v = j * M}
    BY <1>2 DEF Grid
<1> HIDE DEF M
<1>4. 0 \in AnyVal /\ 1 \in AnyVal /\ M \in AnyVal
    BY <1>1
<1>5. 0 = 0 * M /\ M = 1 * M
    BY <1>1
<1> QED
    BY <1>3, <1>4, <1>5 DEF M

LEMMA GridMoves ==
    ASSUME TypeInv, TypeInv', GridInv, NEW p \in Node, Moves(p)
    PROVE  GridInv'
<1>1. ASSUME NEW a \in Node, NEW c \in Checkpoints, NEW r \in 0 .. Rounds,
             (Opens(p) /\ r = node'[p].round) => StartVal(node'[p], c, r) \in Grid(r)
      PROVE  /\ node'[a].rs[c][r] \in StateOf(Grid(r), Grid(r + 1))
             /\ \A m \in Flying(a)' :
                   (m.round = r /\ c \in DOMAIN m.vals) => m.vals[c] \in Grid(r)
  <2>1. /\ node[a].rs[c][r] \in StateOf(Grid(r), Grid(r + 1))
        /\ \A b \in Node : \A m \in Flying(b) :
              (m.round = r /\ c \in DOMAIN m.vals) => m.vals[c] \in Grid(r)
      BY DEF GridInv
  <2> DEFINE S == Grid(r)
             T == Grid(r + 1)
  <2>2. S \in SUBSET AnyVal /\ Spans(T, S)
      BY SpansGrid
  <2>3. (Opens(p) /\ r = node'[p].round) => StartVal(node'[p], c, r) \in S
      BY <1>1
  <2> HIDE DEF S, T
  <2>4. /\ node[a].rs[c][r] \in StateOf(S, T)
        /\ \A b \in Node : \A m \in Flying(b) :
              (m.round = r /\ c \in DOMAIN m.vals) => m.vals[c] \in S
      BY <2>1 DEF S, T
  <2>5. /\ node'[a].rs[c][r] \in StateOf(S, T)
        /\ \A m \in Flying(a)' : (m.round = r /\ c \in DOMAIN m.vals) => m.vals[c] \in S
      BY <2>2, <2>3, <2>4, StateMoves
  <2> QED
      BY <2>5 DEF S, T
<1>2. ASSUME NEW c \in Checkpoints, NEW r \in 0 .. Rounds, Opens(p), r = node'[p].round
      PROVE  StartVal(node'[p], c, r) \in Grid(r)
  <2>1. CASE r = 0
    <3>1. node'[p].input[c] \in {0, MaxInput}
        BY StateIn DEF Moves
    <3> QED
        BY <2>1, <3>1, InputsOnGrid DEF StartVal
  <2>2. CASE r # 0
    <3> DEFINE k == r - 1
    <3>1. k \in 0 .. Rounds /\ k + 1 = r /\ k # r
        BY <2>2, BinAAAssumption
    <3>2. StartVal(node'[p], c, r) = node'[p].rs[c][k].term
        BY <2>2 DEF StartVal
    <3>3. StartVal(node'[p], c, r) \in AnyVal
        BY <1>2, OpensBegan
    <3> HIDE DEF k
    <3>4. node'[p].rs[c][k] \in StateOf(Grid(k), Grid(k + 1))
        BY <1>1, <1>2, <3>1
    <3>5. node'[p].rs[c][k].term \in Grid(r) \union {NoVal}
      <4>1. node'[p].rs[c][k].term \in Grid(k + 1) \union {NoVal}
          BY <3>4, StateShape
      <4> QED
          BY <3>1, <4>1
    <3>6. NoVal \notin AnyVal
        BY ValuesFinite DEF NoVal
    <3> QED
        BY <3>2, <3>3, <3>5, <3>6
  <2> QED
      BY <2>1, <2>2
<1>3. ASSUME NEW a \in Node, NEW c \in Checkpoints, NEW r \in 0 .. Rounds
      PROVE  /\ node'[a].rs[c][r] \in StateOf(Grid(r), Grid(r + 1))
             /\ \A m \in Flying(a)' :
                   (m.round = r /\ c \in DOMAIN m.vals) => m.vals[c] \in Grid(r)
    BY <1>1, <1>2
<1>4. ASSUME NEW a \in Node, NEW m \in Flying(a)', NEW c \in DOMAIN m.vals
      PROVE  m.vals[c] \in Grid(m.round)
  <2>1. m.round \in 0 .. Rounds /\ c \in Checkpoints
      BY FlyingNext
  <2> QED
      BY <1>3, <2>1
<1> QED
    BY <1>3, <1>4 DEF GridInv

-----------------------------------------------------------------------------
(* Why a round ends.                                                       *)

LEMMA Quorums ==
    /\ NumNodes \in Nat /\ NumFaults \in Nat /\ HighThreshold \in Int /\ MinThreshold \in Int
    /\ HighThreshold >= 2 /\ HighThreshold > NumFaults /\ MinThreshold > NumFaults
    BY BinAAAssumption, FS_CardinalityType DEF HighThreshold, MinThreshold, NumNodes

\* Votes are only added, so a quorum stays one.
LEMMA GrowsQuorum ==
    ASSUME NEW S, NEW T, NEW rs \in StateOf(S, T), NEW new \in StateOf(S, T),
           NEW v, NEW E1, NEW E2, Grows(rs, new, v, E1, E2), NEW i \in DOMAIN rs.slots
    PROVE  /\ i \in DOMAIN new.slots /\ new.slots[i].val = rs.slots[i].val
           /\ Cardinality(rs.slots[i].echo1) >= HighThreshold =>
                 Cardinality(new.slots[i].echo1) >= HighThreshold
           /\ Cardinality(rs.slots[i].echo2) >= HighThreshold =>
                 Cardinality(new.slots[i].echo2) >= HighThreshold
<1>1. /\ i \in DOMAIN new.slots /\ new.slots[i].val = rs.slots[i].val
      /\ rs.slots[i].echo1 \subseteq new.slots[i].echo1
      /\ rs.slots[i].echo2 \subseteq new.slots[i].echo2
    BY DEF Grows
<1>2. new.slots[i].echo1 \subseteq Node /\ new.slots[i].echo2 \subseteq Node
    BY <1>1, StateShape DEF Slot
<1>3. ASSUME NEW A, NEW B \in SUBSET Node, A \subseteq B, Cardinality(A) >= HighThreshold
      PROVE  Cardinality(B) >= HighThreshold
  <2>1. IsFiniteSet(B) /\ IsFiniteSet(A) /\ Cardinality(A) <= Cardinality(B)
      BY <1>3, BinAAAssumption, FS_Subset
  <2>2. Cardinality(A) \in Nat /\ Cardinality(B) \in Nat
      BY <2>1, FS_CardinalityType
  <2> QED
      BY <1>3, <2>1, <2>2, Quorums
<1> QED
    BY <1>1, <1>2, <1>3

LEMMA EchoJustified ==
    ASSUME NEW S, NEW T, NEW rs \in StateOf(S, T), NEW v, NEW q,
           NEW out, out.rs \in StateOf(S, T), EchoDoes(rs, v, q, out), Justified(rs)
    PROVE  Justified(out.rs)
<1> DEFINE new == out.rs
<1>1. new \in StateOf(S, T) /\ Grows(rs, new, v, {q}, {})
    BY DEF EchoDoes
<1>2. \/ new.echo1vals = rs.echo1vals /\ new.term = rs.term
      \/ /\ ~Terminated(rs)
         /\ new.term = IF Cardinality(new.echo1vals) = 2 THEN Midpoint(new.echo1vals)
                       ELSE NoVal
         /\ SlotOf(rs, v) \in DOMAIN new.slots
         /\ Cardinality(new.slots[SlotOf(rs, v)].echo1) >= HighThreshold
    BY DEF EchoDoes
<1> HIDE DEF new
<1>3. \A i \in DOMAIN rs.slots :
         /\ i \in DOMAIN new.slots /\ new.slots[i].val = rs.slots[i].val
         /\ Cardinality(rs.slots[i].echo1) >= HighThreshold =>
               Cardinality(new.slots[i].echo1) >= HighThreshold
         /\ Cardinality(rs.slots[i].echo2) >= HighThreshold =>
               Cardinality(new.slots[i].echo2) >= HighThreshold
    BY <1>1, GrowsQuorum
<1>4. CASE new.echo1vals = rs.echo1vals /\ new.term = rs.term
    BY <1>3, <1>4 DEF Justified, Terminated, new
<1>5. CASE /\ new.term = IF Cardinality(new.echo1vals) = 2 THEN Midpoint(new.echo1vals)
                         ELSE NoVal
           /\ SlotOf(rs, v) \in DOMAIN new.slots
           /\ Cardinality(new.slots[SlotOf(rs, v)].echo1) >= HighThreshold
    BY <1>5 DEF Justified, Terminated, new
<1> QED
    BY <1>2, <1>4, <1>5

LEMMA Echo2Justified ==
    ASSUME NEW S, NEW T, NEW rs \in StateOf(S, T), NEW v, NEW q,
           NEW new \in StateOf(S, T), Echo2Does(rs, v, q, new), Justified(rs)
    PROVE  Justified(new)
<1>1. /\ Grows(rs, new, v, {}, {q}) /\ new.echo1vals = rs.echo1vals
      /\ \/ new.term = rs.term
         \/ \E i \in DOMAIN new.slots :
               new.term = new.slots[i].val /\ Cardinality(new.slots[i].echo2) >= HighThreshold
    BY DEF Echo2Does
<1>2. \A i \in DOMAIN rs.slots :
         /\ i \in DOMAIN new.slots /\ new.slots[i].val = rs.slots[i].val
         /\ Cardinality(rs.slots[i].echo1) >= HighThreshold =>
               Cardinality(new.slots[i].echo1) >= HighThreshold
         /\ Cardinality(rs.slots[i].echo2) >= HighThreshold =>
               Cardinality(new.slots[i].echo2) >= HighThreshold
    BY <1>1, GrowsQuorum
<1>3. new.echo1vals # {} =>
         \E i \in DOMAIN new.slots : Cardinality(new.slots[i].echo1) >= HighThreshold
    BY <1>1, <1>2 DEF Justified
<1>4. CASE new.term = rs.term
    BY <1>1, <1>2, <1>3, <1>4 DEF Justified, Terminated
<1>5. CASE \E i \in DOMAIN new.slots :
              new.term = new.slots[i].val /\ Cardinality(new.slots[i].echo2) >= HighThreshold
    BY <1>3, <1>5 DEF Justified, Terminated
<1> QED
    BY <1>1, <1>4, <1>5

LEMMA CountedJustified ==
    ASSUME NEW rs \in StateOf(AnyVal, AnyVal), Justified(rs), NEW kind, NEW v \in AnyVal,
           NEW q \in Node, NEW p \in Node, NEW new, new = Counted(rs, kind, v, q, p)
    PROVE  Justified(new)
<1> DEFINE e == HearEcho(rs, v, q, MinThreshold, HighThreshold)
<1>1. e = HearEcho(rs, v, q, MinThreshold, HighThreshold)
    OBVIOUS
<1> HIDE DEF e
<1>2. /\ new \in StateOf(AnyVal, AnyVal) /\ e.rs \in StateOf(AnyVal, AnyVal)
      /\ kind = "ECHO2" => Echo2Does(rs, v, q, new)
      /\ kind # "ECHO2" =>
            /\ EchoDoes(rs, v, q, e)
            /\ e.echo2 = NoVal => new = e.rs
            /\ e.echo2 # NoVal => e.echo2 = v /\ Echo2Does(e.rs, v, p, new)
    BY <1>1, SpansValues, CountedDoes
<1>3. CASE kind = "ECHO2"
    BY <1>2, <1>3, Echo2Justified
<1>4. CASE kind # "ECHO2"
  <2> DEFINE mid == e.rs
  <2>1. mid \in StateOf(AnyVal, AnyVal) /\ Justified(mid)
      BY <1>2, <1>4, EchoJustified
  <2>2. CASE e.echo2 = NoVal
      BY <1>2, <1>4, <2>1, <2>2
  <2>3. CASE e.echo2 # NoVal
    <3>1. Echo2Does(mid, v, p, new)
        BY <1>2, <1>4, <2>3
    <3> HIDE DEF mid
    <3> QED
        BY <1>2, <2>1, <3>1, Echo2Justified
  <2> QED
      BY <2>2, <2>3
<1> QED
    BY <1>3, <1>4

LEMMA JustMoves ==
    ASSUME TypeInv, TypeInv', JustInv, NEW p \in Node, Moves(p)
    PROVE  JustInv'
<1> SUFFICES ASSUME NEW a \in Node, NEW c \in Checkpoints, NEW r \in 0 .. Rounds
             PROVE  Justified(node'[a].rs[c][r])
    BY DEF JustInv
<1>1. Justified(node[a].rs[c][r]) /\ node[a].rs[c][r] \in StateOf(AnyVal, AnyVal)
    BY StateIn DEF JustInv
<1>2. CASE a # p
  <2>1. node'[a] = node[a]
      BY <1>2 DEF Moves
  <2> QED
      BY <1>1, <2>1
<1>3. CASE a = p
  <2>1. CASE node'[p].rs[c][r] = node[p].rs[c][r]
      BY <1>1, <1>3, <2>1
  <2>2. ASSUME NEW q \in Node, NEW m \in Flying(q), m.round = r, Counts(p, q, m, c)
        PROVE  Justified(node'[p].rs[c][r])
    <3>1. /\ m.vals[c] \in AnyVal
          /\ node'[p].rs[c][r] = Counted(node[p].rs[c][r], m.kind, m.vals[c], q, p)
        BY <2>2, FlyingIn DEF Counts
    <3> QED
        BY <1>1, <1>3, <3>1, CountedJustified
  <2>3. CASE r = node'[p].round /\ Opens(p)
    <3> DEFINE v == StartVal(node'[p], c, r)
               own == OwnStart(v, p)
    <3>1. v \in AnyVal /\ own = OwnStart(v, p) /\ node'[p].rs[c][r] = own.rs
        BY <2>3, BinAAAssumption DEF Opens
    <3> HIDE DEF v, own
    <3>2. own.rs.echo1vals = {} /\ own.rs.term = NoVal
        BY <3>1, OwnStartIs
    <3> QED
        BY <1>3, <3>1, <3>2 DEF Justified, Terminated
  <2> QED
      BY <1>3, <2>1, <2>2, <2>3 DEF Moves
<1> QED
    BY <1>2, <1>3

-----------------------------------------------------------------------------
(* Who is heard.                                                           *)

Within(rs, J) ==
    \A i \in DOMAIN rs.slots : rs.slots[i].echo1 \union rs.slots[i].echo2 \subseteq J

LEMMA GrowsWithin ==
    ASSUME NEW rs, NEW new, NEW v, NEW E1, NEW E2, NEW J, Grows(rs, new, v, E1, E2),
           Within(rs, J), E1 \subseteq J, E2 \subseteq J
    PROVE  Within(new, J)
    BY DEF Grows, Within

LEMMA CountedWithin ==
    ASSUME NEW rs \in StateOf(AnyVal, AnyVal), NEW kind, NEW v \in AnyVal,
           NEW q \in Node, NEW p \in Node, NEW new, new = Counted(rs, kind, v, q, p),
           NEW J, Within(rs, J), q \in J, p \in J
    PROVE  Within(new, J)
<1> DEFINE e == HearEcho(rs, v, q, MinThreshold, HighThreshold)
<1>1. e = HearEcho(rs, v, q, MinThreshold, HighThreshold)
    OBVIOUS
<1> HIDE DEF e
<1>2. /\ kind = "ECHO2" => Grows(rs, new, v, {}, {q})
      /\ kind # "ECHO2" =>
            /\ Grows(rs, e.rs, v, {q}, {})
            /\ e.echo2 = NoVal => new = e.rs
            /\ e.echo2 # NoVal => Grows(e.rs, new, v, {}, {p})
  <2>1. /\ kind = "ECHO2" => Echo2Does(rs, v, q, new)
        /\ kind # "ECHO2" =>
              /\ EchoDoes(rs, v, q, e)
              /\ e.echo2 = NoVal => new = e.rs
              /\ e.echo2 # NoVal => e.echo2 = v /\ Echo2Does(e.rs, v, p, new)
      BY <1>1, SpansValues, CountedDoes
  <2> QED
      BY <2>1 DEF EchoDoes, Echo2Does
<1>3. CASE kind = "ECHO2"
    BY <1>2, <1>3, GrowsWithin
<1>4. CASE kind # "ECHO2"
  <2> DEFINE mid == e.rs
  <2>1. Within(mid, J)
      BY <1>2, <1>4, GrowsWithin
  <2>2. CASE e.echo2 = NoVal
      BY <1>2, <1>4, <2>1, <2>2
  <2>3. CASE e.echo2 # NoVal
    <3>1. Grows(mid, new, v, {}, {p})
        BY <1>2, <1>4, <2>3
    <3> HIDE DEF mid
    <3> QED
        BY <2>1, <3>1, GrowsWithin
  <2> QED
      BY <2>2, <2>3
<1> QED
    BY <1>3, <1>4

LEMMA JoinedMoves ==
    ASSUME TypeInv, TypeInv', JoinedInv, NEW p \in Node, Moves(p)
    PROVE  JoinedInv'
<1>1. \A a \in Node : /\ node[a].round \in Int /\ node'[a].round \in Int
                      /\ node[a].round <= node'[a].round
  <2> SUFFICES ASSUME NEW a \in Node
               PROVE  /\ node[a].round \in Int /\ node'[a].round \in Int
                      /\ node[a].round <= node'[a].round
      OBVIOUS
  <2>1. node[a].round \in Int /\ node'[a].round \in Int
      BY StateIn, StateNext
  <2>2. CASE a # p
    <3>1. node'[a] = node[a]
        BY <2>2 DEF Moves
    <3> QED
        BY <2>1, <3>1
  <2>3. CASE a = p
      BY <2>1, <2>3 DEF Moves, Opens
  <2> QED
      BY <2>2, <2>3, <2>1
<1> DEFINE J == {q \in Node : node'[q].round >= 0}
<1>2. Joined \subseteq J /\ J = Joined'
    BY <1>1 DEF Joined
<1>3. ASSUME 0 <= node[p].round PROVE p \in J
    BY <1>1, <1>3
<1>4. ASSUME Opens(p) PROVE p \in J
    BY <1>1, <1>4 DEF Opens
<1> HIDE DEF J
<1>5. ASSUME NEW a \in Node, NEW c \in Checkpoints, NEW r \in 0 .. Rounds
      PROVE  Within(node'[a].rs[c][r], J)
  <2>1. Within(node[a].rs[c][r], J) /\ node[a].rs[c][r] \in StateOf(AnyVal, AnyVal)
      BY <1>2, StateIn DEF JoinedInv, Within
  <2>2. CASE a # p
    <3>1. node'[a] = node[a]
        BY <2>2 DEF Moves
    <3> QED
        BY <2>1, <3>1
  <2>3. CASE a = p
    <3>1. CASE node'[p].rs[c][r] = node[p].rs[c][r]
        BY <2>1, <2>3, <3>1
    <3>2. ASSUME NEW q \in Node, NEW m \in Flying(q), m.round = r, Counts(p, q, m, c)
          PROVE  Within(node'[p].rs[c][r], J)
      <4>1. /\ m.vals[c] \in AnyVal /\ p \in J
            /\ node'[p].rs[c][r] = Counted(node[p].rs[c][r], m.kind, m.vals[c], q, p)
          BY <1>3, <3>2, FlyingIn DEF Counts
      <4>2. q \in J
          BY <1>2, <3>2 DEF JoinedInv
      <4> QED
          BY <2>1, <2>3, <4>1, <4>2, CountedWithin
    <3>3. CASE r = node'[p].round /\ Opens(p)
      <4> DEFINE v == StartVal(node'[p], c, r)
                 own == OwnStart(v, p)
      <4>1. /\ v \in AnyVal /\ own = OwnStart(v, p) /\ node'[p].rs[c][r] = own.rs
            /\ p \in J
          BY <1>4, <3>3, BinAAAssumption DEF Opens
      <4> HIDE DEF v, own
      <4>2. /\ DOMAIN own.rs.slots = {1}
            /\ own.rs.slots[1].echo1 = {p} /\ own.rs.slots[1].echo2 = {}
          BY <4>1, OwnStartIs
      <4> QED
          BY <2>3, <4>1, <4>2 DEF Within
    <3> QED
        BY <2>3, <3>1, <3>2, <3>3 DEF Moves
  <2> QED
      BY <2>2, <2>3
<1>6. ASSUME NEW a \in Node, NEW m \in Flying(a)' PROVE a \in J
  <2>1. \/ m \in Flying(a)
        \/ a = p /\ Opening(p, m)
        \/ a = p /\ Answering(p, m)
      BY <1>6 DEF Moves
  <2>2. CASE m \in Flying(a)
      BY <1>2, <2>2 DEF JoinedInv
  <2>3. CASE a = p /\ Opening(p, m)
      BY <1>4, <2>3 DEF Opening
  <2>4. CASE a = p /\ Answering(p, m)
      BY <1>3, <2>4 DEF Answering
  <2> QED
      BY <2>1, <2>2, <2>3, <2>4
<1>7. ASSUME NEW a \in Node, NEW c \in Checkpoints, node'[a].round > 0
      PROVE  Terminated(node'[a].rs[c][node'[a].round - 1])
  <2>1. CASE a # p
    <3>1. node'[a] = node[a]
        BY <2>1 DEF Moves
    <3>2. node[a].round > 0
        BY <1>7, <3>1
    <3>3. Terminated(node[a].rs[c][node[a].round - 1])
        BY <3>2 DEF JoinedInv
    <3> QED
        BY <3>1, <3>3
  <2>2. CASE a = p /\ Opens(p)
    <3> DEFINE r == node'[p].round
    <3>1. StartVal(node'[p], c, r) \in AnyVal /\ r # 0
        BY <1>1, <1>7, <2>2 DEF Opens
    <3>2. StartVal(node'[p], c, r) = node'[p].rs[c][r - 1].term
        BY <3>1 DEF StartVal
    <3>3. NoVal \notin AnyVal
        BY ValuesFinite DEF NoVal
    <3> QED
        BY <2>2, <3>1, <3>2, <3>3 DEF Terminated
  <2>3. CASE a = p /\ ~Opens(p)
    <3> DEFINE k == node[p].round - 1
    <3>1. node'[p].round = node[p].round /\ node[p].round > 0 /\ Terminated(node[p].rs[c][k])
      <4>1. node'[p].round = node[p].round
          BY <2>3 DEF Moves
      <4>2. node[p].round > 0
          BY <1>7, <2>3, <4>1
      <4> QED
          BY <4>1, <4>2 DEF JoinedInv
    <3>2. k \in 0 .. Rounds /\ k < node[p].round /\ k \in Int
      <4>1. node[p].round \in -1 .. Rounds + 1
          BY StateIn
      <4> QED
          BY <3>1, <4>1, BinAAAssumption
    <3> HIDE DEF k
    <3>3. ~ \E q \in Node : \E m \in Flying(q) : m.round = k /\ Counts(p, q, m, c)
        BY <1>1, <3>2 DEF Counts
    <3>4. node'[p].rs[c][k] = node[p].rs[c][k]
        BY <2>3, <3>2, <3>3 DEF Moves
    <3> QED
        BY <2>3, <3>1, <3>4 DEF k
  <2> QED
      BY <2>1, <2>2, <2>3
<1> QED
    BY <1>2, <1>5, <1>6, <1>7 DEF JoinedInv, Within

-----------------------------------------------------------------------------
(* Round 0, where only two values are heard of: a slot counts one value.   *)

Ends == {0, MaxInput}

LEMMA EndsAre ==
    /\ Ends \in SUBSET AnyVal /\ Spans(AnyVal, Ends) /\ NoVal \notin AnyVal
    /\ \A v \in Ends : MaxInput - v \in Ends /\ MaxInput - v # v
    /\ \A v \in Ends, u \in Ends : u = v \/ u = MaxInput - v
<1> DEFINE M == MaxInput
<1>1. M \in Nat /\ M # 0 /\ AnyVal = 0 .. M /\ NoVal \notin AnyVal
  <2>1. M \in Nat /\ M = 2 * 2 ^ Rounds /\ 2 ^ Rounds \in Nat \ {0} /\ NoVal \notin AnyVal
      BY ValuesFinite DEF NoVal
  <2> DEFINE u == 2 ^ Rounds
  <2>2. M = 2 * u /\ u \in Nat \ {0}
      BY <2>1
  <2> HIDE DEF u
  <2>3. M # 0
      BY <2>2
  <2> QED
      BY <2>1, <2>3 DEF AnyVal
<1>2. Ends = {0, M}
    BY DEF Ends
<1> HIDE DEF M
<1>3. Ends \in SUBSET AnyVal
    BY <1>1, <1>2
<1>4. Spans(AnyVal, Ends)
    BY <1>3, SpansValues DEF Spans
<1>5. /\ \A v \in Ends : M - v \in Ends /\ M - v # v
      /\ \A v \in Ends, u \in Ends : u = v \/ u = M - v
    BY <1>1, <1>2
<1> QED
    BY <1>1, <1>3, <1>4, <1>5 DEF M

LEMMA RoundZero ==
    ASSUME TypeInv, ValidInv, NEW c \in Checkpoints
    PROVE  /\ \A a \in Node : node[a].rs[c][0] \in StateOf(Ends, AnyVal)
           /\ \A a \in Node : \A m \in Flying(a) :
                 (m.round = 0 /\ c \in DOMAIN m.vals) => m.vals[c] \in Ends
<1> DEFINE S == StartVals(0, c)
<1>1. S \subseteq Ends
    BY StateIn DEF StartVals, StartVal, Ends
<1>2. 0 \in 0 .. Rounds
    BY BinAAAssumption
<1>3. /\ \A a \in Node : node[a].rs[c][0] \in StateOf(S, Between(S))
      /\ \A a \in Node : \A m \in Flying(a) :
            (m.round = 0 /\ c \in DOMAIN m.vals) => m.vals[c] \in S
    BY <1>2 DEF ValidInv
<1>4. Between(S) \subseteq AnyVal
    BY DEF Between
<1> HIDE DEF S
<1>5. \A a \in Node : node[a].rs[c][0] \in StateOf(Ends, AnyVal)
    BY <1>1, <1>3, <1>4, StateOfGrows
<1> QED
    BY <1>1, <1>3, <1>5

\* Only the slots of a value grow by what is said for it.
Exactly(rs, new, v, E1, E2) ==
    /\ SlotOf(rs, v) \in DOMAIN new.slots => new.slots[SlotOf(rs, v)].val = v
    /\ \A i \in DOMAIN new.slots :
          \/ /\ i \in DOMAIN rs.slots /\ new.slots[i].val = rs.slots[i].val
             /\ new.slots[i].echo1 = rs.slots[i].echo1
             /\ new.slots[i].echo2 = rs.slots[i].echo2
          \/ /\ i \in DOMAIN rs.slots /\ new.slots[i].val = v /\ rs.slots[i].val = v
             /\ new.slots[i].echo1 = rs.slots[i].echo1 \union E1
             /\ new.slots[i].echo2 = rs.slots[i].echo2 \union E2
          \/ /\ i \notin DOMAIN rs.slots /\ new.slots[i].val = v
             /\ new.slots[i].echo1 = E1 /\ new.slots[i].echo2 = E2

LEMMA ExactlyOfTwo ==
    ASSUME NEW a, NEW b, NEW rs \in StateOf({a, b}, AnyVal), NEW v \in {a, b},
           NEW new, NEW E1, NEW E2,
           Grows(rs, new, v, E1, E2)
    PROVE  Exactly(rs, new, v, E1, E2)
<1> DEFINE k == SlotOf(rs, v)
<1>1. ASSUME k \in DOMAIN rs.slots PROVE rs.slots[k].val = v
  <2>1. k = 1 => rs.slots[k].val = v
      BY DEF SlotOf
  <2>2. k = 1 \/ k = 2
      BY DEF SlotOf
  <2>3. CASE k = 2
    <3>1. 2 \in DOMAIN rs.slots /\ rs.slots[1].val # v
        BY <1>1, <2>3 DEF SlotOf
    <3>2. Len(rs.slots) = 2 /\ DOMAIN rs.slots = {1, 2}
      <4> DEFINE n == Len(rs.slots)
      <4>1. /\ DOMAIN rs.slots \in {{}, {1}, {1, 2}} /\ DOMAIN rs.slots = 1 .. n
            /\ rs.slots \in Seq(Slot({a, b}))
          BY StateShape
      <4>2. DOMAIN rs.slots = {1, 2}
          BY <3>1, <4>1
      <4>3. n \in Nat
          BY <4>1, LenProperties
      <4> HIDE DEF n
      <4>4. 1 .. n = {1, 2}
          BY <4>1, <4>2
      <4>5. 2 \in 1 .. n /\ 3 \notin 1 .. n
          BY <4>4
      <4>6. n = 2
          BY <4>3, <4>5
      <4> QED
          BY <4>2, <4>6 DEF n
    <3>3. rs.slots[1].val # rs.slots[2].val
        BY <3>2, StateShape
    <3>4. rs.slots[1].val \in {a, b} /\ rs.slots[2].val \in {a, b}
        BY <3>2, StateShape DEF Slot
    <3>5. rs.slots[2].val = v
        BY <3>1, <3>3, <3>4
    <3> QED
        BY <2>3, <3>5
  <2> QED
      BY <2>1, <2>2, <2>3
<1> HIDE DEF k
<1>2. k = SlotOf(rs, v)
    BY DEF k
<1>3. \A i \in DOMAIN new.slots :
         \/ i \in DOMAIN rs.slots /\ new.slots[i].val = rs.slots[i].val
         \/ i \notin DOMAIN rs.slots /\ new.slots[i].val = v
    BY DEF Grows
<1>4. k \in DOMAIN new.slots => new.slots[k].val = v
    BY <1>1, <1>3
<1> QED
    BY <1>1, <1>2, <1>3, <1>4 DEF Grows, Exactly

LEMMA GrowsExactly ==
    ASSUME NEW rs \in StateOf(Ends, AnyVal), NEW v \in Ends, NEW new, NEW E1, NEW E2,
           Grows(rs, new, v, E1, E2)
    PROVE  Exactly(rs, new, v, E1, E2)
BY ExactlyOfTwo DEF Ends

\* A vote is for what its voter voted for: f gives the votes of each node.
Voted(rs, f) ==
    \A i \in DOMAIN rs.slots : \A q \in rs.slots[i].echo2 : rs.slots[i].val \in f[q]

LEMMA ExactlyVoted ==
    ASSUME NEW rs, NEW new, NEW v, NEW E1, NEW E2, NEW f, Exactly(rs, new, v, E1, E2),
           Voted(rs, f), \A q \in E2 : v \in f[q]
    PROVE  Voted(new, f)
    BY DEF Exactly, Voted

LEMMA CountedVoted ==
    ASSUME NEW rs \in StateOf(Ends, AnyVal), NEW kind, NEW v \in Ends,
           NEW q \in Node, NEW p \in Node, NEW new, new = Counted(rs, kind, v, q, p),
           NEW f, Voted(rs, f), kind = "ECHO2" => v \in f[q], f[p] = new.echo1vals
    PROVE  Voted(new, f)
<1> DEFINE e == HearEcho(rs, v, q, MinThreshold, HighThreshold)
<1>1. e = HearEcho(rs, v, q, MinThreshold, HighThreshold)
    OBVIOUS
<1> HIDE DEF e
<1>2. /\ new \in StateOf(Ends, AnyVal) /\ e.rs \in StateOf(Ends, AnyVal)
      /\ kind = "ECHO2" => Echo2Does(rs, v, q, new)
      /\ kind # "ECHO2" =>
            /\ EchoDoes(rs, v, q, e)
            /\ e.echo2 = NoVal => new = e.rs
            /\ e.echo2 # NoVal => e.echo2 = v /\ Echo2Does(e.rs, v, p, new)
    BY <1>1, EndsAre, CountedDoes
<1>3. CASE kind = "ECHO2"
  <2>1. Exactly(rs, new, v, {}, {q})
      BY <1>2, <1>3, GrowsExactly DEF Echo2Does
  <2>2. \A b \in {q} : v \in f[b]
      BY <1>3
  <2> QED
      BY <2>1, <2>2, ExactlyVoted
<1>4. CASE kind # "ECHO2"
  <2> DEFINE mid == e.rs
  <2>1. mid \in StateOf(Ends, AnyVal) /\ Grows(rs, mid, v, {q}, {})
      BY <1>2, <1>4 DEF EchoDoes
  <2>2. Exactly(rs, mid, v, {q}, {}) /\ \A b \in {} : v \in f[b]
      BY <2>1, GrowsExactly
  <2>3. Voted(mid, f)
    <3> HIDE DEF mid
    <3> QED
        BY <2>2, ExactlyVoted
  <2>4. CASE e.echo2 = NoVal
      BY <1>2, <1>4, <2>3, <2>4
  <2>5. CASE e.echo2 # NoVal
    <3>1. Grows(mid, new, v, {}, {p}) /\ new.echo1vals = mid.echo1vals
        BY <1>2, <1>4, <2>5 DEF Echo2Does
    <3>2. v \in mid.echo1vals
        BY <1>2, <1>4, <2>5 DEF EchoDoes
    <3> HIDE DEF mid
    <3>3. Exactly(mid, new, v, {}, {p}) /\ \A b \in {p} : v \in f[b]
        BY <2>1, <3>1, <3>2, GrowsExactly
    <3> QED
        BY <2>3, <3>3, ExactlyVoted
  <2> QED
      BY <2>4, <2>5
<1> QED
    BY <1>3, <1>4

LEMMA CountedVotes ==
    ASSUME NEW rs \in StateOf(AnyVal, AnyVal), NEW kind, NEW v \in AnyVal,
           NEW q \in Node, NEW p \in Node, NEW new, new = Counted(rs, kind, v, q, p),
           NEW e, e = HearEcho(rs, v, q, MinThreshold, HighThreshold)
    PROVE  /\ rs.echo1vals \subseteq new.echo1vals
           /\ (kind # "ECHO2" /\ e.echo2 # NoVal) => v \in new.echo1vals
<1>1. /\ kind = "ECHO2" => Echo2Does(rs, v, q, new)
      /\ kind # "ECHO2" =>
            /\ EchoDoes(rs, v, q, e)
            /\ e.echo2 = NoVal => new = e.rs
            /\ e.echo2 # NoVal => e.echo2 = v /\ Echo2Does(e.rs, v, p, new)
    BY SpansValues, CountedDoes
<1>2. CASE kind = "ECHO2"
    BY <1>1, <1>2 DEF Echo2Does
<1>3. CASE kind # "ECHO2"
  <2>1. /\ rs.echo1vals \subseteq e.rs.echo1vals
        /\ e.echo2 # NoVal => v \in e.rs.echo1vals
      BY <1>1, <1>3 DEF EchoDoes
  <2>2. new.echo1vals = e.rs.echo1vals
      BY <1>1, <1>3 DEF Echo2Does
  <2> QED
      BY <1>3, <2>1, <2>2
<1> QED
    BY <1>2, <1>3

\* No vote of round 0 is forgotten: a node begins that round when it joins, and has
\* not voted in it before.
LEMMA VotesKept ==
    ASSUME TypeInv, TypeInv', NEW p \in Node, Moves(p),
           NEW c \in Checkpoints, NEW b \in Joined
    PROVE  node[b].rs[c][0].echo1vals \subseteq node'[b].rs[c][0].echo1vals
<1>1. 0 \in 0 .. Rounds /\ b \in Node /\ node[b].round >= 0 /\ node[b].round \in Int
    BY StateIn, BinAAAssumption DEF Joined
<1>2. CASE b # p
  <2>1. node'[b] = node[b]
      BY <1>1, <1>2 DEF Moves
  <2> QED
      BY <2>1
<1>3. CASE b = p
  <2>1. CASE node'[p].rs[c][0] = node[p].rs[c][0]
      BY <1>3, <2>1
  <2>2. ASSUME NEW q \in Node, NEW m \in Flying(q), m.round = 0, Counts(p, q, m, c)
        PROVE  node[p].rs[c][0].echo1vals \subseteq node'[p].rs[c][0].echo1vals
    <3>1. /\ m.vals[c] \in AnyVal /\ node[p].rs[c][0] \in StateOf(AnyVal, AnyVal)
          /\ node'[p].rs[c][0] = Counted(node[p].rs[c][0], m.kind, m.vals[c], q, p)
        BY <1>1, <2>2, FlyingIn, StateIn DEF Counts
    <3> QED
        BY <3>1, CountedVotes
  <2>3. ~(0 = node'[p].round /\ Opens(p))
      BY <1>1, <1>3 DEF Opens
  <2> QED
      BY <1>1, <1>3, <2>1, <2>2, <2>3 DEF Moves
<1> QED
    BY <1>2, <1>3

LEMMA VotesMoves ==
    ASSUME TypeInv, TypeInv', ValidInv, JoinedInv, VotesInv, NEW p \in Node, Moves(p)
    PROVE  VotesInv'
<1>0. 0 \in 0 .. Rounds
    BY BinAAAssumption
<1>1. ASSUME NEW a \in Node, NEW c \in Checkpoints
      PROVE  Voted(node'[a].rs[c][0], [b \in Node |-> node'[b].rs[c][0].echo1vals])
  <2> DEFINE f == [b \in Node |-> node'[b].rs[c][0].echo1vals]
  <2>1. \A b \in Node : f[b] = node'[b].rs[c][0].echo1vals
      OBVIOUS
  <2>2. \A b \in Joined : node[b].rs[c][0].echo1vals \subseteq f[b]
    <3>1. \A b \in Joined : b \in Node
        BY DEF Joined
    <3> QED
        BY <2>1, <3>1, VotesKept
  <2> HIDE DEF f
  <2>3. Voted(node[a].rs[c][0], f)
    <3>1. ASSUME NEW i \in DOMAIN node[a].rs[c][0].slots, NEW q \in node[a].rs[c][0].slots[i].echo2
          PROVE  node[a].rs[c][0].slots[i].val \in f[q]
      <4>1. q \in Joined
          BY <1>0 DEF JoinedInv
      <4>2. q \in Node /\ node[a].rs[c][0].slots[i].val \in node[q].rs[c][0].echo1vals
          BY <4>1 DEF VotesInv, Joined
      <4> QED
          BY <2>2, <4>1, <4>2
    <3> QED
        BY <3>1 DEF Voted
  <2>4. CASE node'[a].rs[c][0] = node[a].rs[c][0]
      BY <2>3, <2>4 DEF f
  <2>5. CASE a # p
    <3>1. node'[a] = node[a]
        BY <2>5 DEF Moves
    <3> QED
        BY <2>3, <3>1 DEF f
  <2>6. ASSUME a = p, NEW q \in Node, NEW m \in Flying(q), m.round = 0, Counts(p, q, m, c)
        PROVE  Voted(node'[p].rs[c][0], f)
    <3> DEFINE rs == node[p].rs[c][0]
               new == node'[p].rs[c][0]
               v == m.vals[c]
               k == m.kind
    <3>1. new = Counted(rs, k, v, q, p) /\ c \in DOMAIN m.vals
        BY <2>6 DEF Counts
    <3>2. rs \in StateOf(Ends, AnyVal) /\ v \in Ends
        BY <2>6, <3>1, RoundZero
    <3>3. k = "ECHO2" => v \in f[q]
      <4>1. ASSUME k = "ECHO2" PROVE v \in node[q].rs[c][0].echo1vals
          BY <2>6, <3>1, <4>1 DEF VotesInv
      <4>2. q \in Joined
          BY <2>6 DEF JoinedInv
      <4> QED
          BY <2>2, <4>1, <4>2
    <3>4. Voted(rs, f) /\ f[p] = new.echo1vals
        BY <2>1, <2>3, <2>6
    <3> HIDE DEF rs, new, v, k
    <3>5. Voted(new, f)
        BY <3>1, <3>2, <3>3, <3>4, CountedVoted
    <3> QED
        BY <3>5 DEF new
  <2>7. CASE a = p /\ 0 = node'[p].round /\ Opens(p)
    <3> DEFINE v == StartVal(node'[p], c, 0)
               own == OwnStart(v, p)
    <3>1. v \in AnyVal /\ own = OwnStart(v, p) /\ node'[p].rs[c][0] = own.rs
        BY <1>0, <2>7, BinAAAssumption DEF Opens
    <3> HIDE DEF v, own
    <3>2. DOMAIN own.rs.slots = {1} /\ own.rs.slots[1].echo2 = {}
        BY <3>1, OwnStartIs
    <3>3. Voted(node'[a].rs[c][0], f)
        BY <2>7, <3>1, <3>2 DEF Voted
    <3> QED
        BY <3>3 DEF f
  <2>8. \/ a # p
        \/ node'[a].rs[c][0] = node[a].rs[c][0]
        \/ a = p /\ \E q \in Node : \E m \in Flying(q) : m.round = 0 /\ Counts(p, q, m, c)
        \/ a = p /\ 0 = node'[p].round /\ Opens(p)
      BY <1>0 DEF Moves
  <2> QED
      BY <2>4, <2>5, <2>6, <2>7, <2>8 DEF f
<1>2. ASSUME NEW a \in Node, NEW x \in Flying(a)', x.kind = "ECHO2", x.round = 0,
             NEW c \in DOMAIN x.vals
      PROVE  x.vals[c] \in node'[a].rs[c][0].echo1vals
  <2>0. c \in Checkpoints /\ x \in Message
      BY FlyingNext
  <2>1. CASE x \in Flying(a)
    <3>1. x.vals[c] \in node[a].rs[c][0].echo1vals /\ a \in Joined
        BY <1>2, <2>1 DEF VotesInv, JoinedInv
    <3> QED
        BY <2>0, <3>1, VotesKept
  <2>2. ~Opening(p, x)
      BY <1>2 DEF Opening, Openings
  <2>3. CASE a = p /\ Answering(p, x)
    <3>1. PICK q \in Node : \E m \in Flying(q) :
             /\ m.kind = "ECHO1" /\ m.round = x.round /\ Counts(p, q, m, c)
             /\ x.vals[c] = m.vals[c] /\ x.vals[c] # NoVal
             /\ x.kind = "ECHO2" =>
                   x.vals[c] = HearEcho(node[p].rs[c][m.round], m.vals[c], q,
                                        MinThreshold, HighThreshold).echo2
        BY <2>0, <2>3, AnswerSays
    <3>2. PICK m \in Flying(q) :
             /\ m.kind = "ECHO1" /\ m.round = 0 /\ Counts(p, q, m, c)
             /\ x.vals[c] = m.vals[c] /\ x.vals[c] # NoVal
             /\ x.vals[c] = HearEcho(node[p].rs[c][m.round], m.vals[c], q,
                                     MinThreshold, HighThreshold).echo2
        BY <1>2, <3>1
    <3> DEFINE rs == node[p].rs[c][0]
               new == node'[p].rs[c][0]
               v == m.vals[c]
               k == m.kind
               e == HearEcho(rs, v, q, MinThreshold, HighThreshold)
    <3>3. /\ new = Counted(rs, k, v, q, p) /\ k # "ECHO2" /\ x.vals[c] = v /\ e.echo2 # NoVal
          /\ e = HearEcho(rs, v, q, MinThreshold, HighThreshold)
        BY <3>2 DEF Counts
    <3>4. rs \in StateOf(AnyVal, AnyVal) /\ v \in AnyVal
        BY <1>0, <2>0, <3>2, StateIn, FlyingIn DEF Counts
    <3> HIDE DEF rs, new, v, k, e
    <3>5. v \in new.echo1vals
        BY <3>3, <3>4, CountedVotes
    <3> QED
        BY <2>3, <3>3, <3>5 DEF new
  <2> QED
      BY <2>1, <2>2, <2>3 DEF Moves
<1>3. ASSUME NEW a \in Node, NEW c \in Checkpoints, NEW i \in DOMAIN node'[a].rs[c][0].slots,
             NEW q \in node'[a].rs[c][0].slots[i].echo2
      PROVE  node'[a].rs[c][0].slots[i].val \in node'[q].rs[c][0].echo1vals
  <2>1. q \in Node
    <3>1. node'[a].rs[c][0] \in StateOf(AnyVal, AnyVal)
        BY <1>0, StateNext
    <3>2. node'[a].rs[c][0].slots[i] \in Slot(AnyVal)
        BY <3>1, StateShape
    <3> QED
        BY <3>2 DEF Slot
  <2> QED
      BY <1>1, <2>1 DEF Voted
<1> QED
    BY <1>2, <1>3 DEF VotesInv

-----------------------------------------------------------------------------
(* A value that too few nodes hold to be amplified.                        *)

Few(rs, v, G) ==
    \A i \in DOMAIN rs.slots : rs.slots[i].val = v =>
        rs.slots[i].echo1 \subseteq G /\ rs.slots[i].echo2 = {}

LEMMA ExactlyFew ==
    ASSUME NEW rs, NEW new, NEW u, NEW E1, NEW E2, NEW v, NEW G,
           Exactly(rs, new, u, E1, E2), Few(rs, v, G), u = v => E1 \subseteq G /\ E2 = {}
    PROVE  Few(new, v, G)
    BY DEF Exactly, Few

LEMMA EchoLoses ==
    ASSUME NEW v, NEW w, v # w, NEW S, S = {v, w},
           NEW rs \in StateOf(S, AnyVal), NEW u \in S,
           NEW q \in Node,
           NEW G \in SUBSET Node, Cardinality(G) <= NumFaults, Loses(rs, v, w, G),
           u = v => q \in G, NEW e, EchoDoes(rs, u, q, e)
    PROVE  /\ Loses(e.rs, v, w, G)
           /\ u = v => e.echo1 = NoVal /\ e.echo2 = NoVal
<1> DEFINE new == e.rs
           k == SlotOf(rs, u)
<1>1. Grows(rs, new, u, {q}, {})
    BY DEF EchoDoes
<1>2. \/ /\ new.echo1vals = rs.echo1vals /\ new.term = rs.term
         /\ e.echo2 = NoVal
         /\ \/ e.echo1 = NoVal
            \/ k \in DOMAIN new.slots /\ Cardinality(new.slots[k].echo1) >= MinThreshold
      \/ /\ new.echo1vals = rs.echo1vals \union {u}
         /\ new.term = IF Cardinality(new.echo1vals) = 2
                       THEN Midpoint(new.echo1vals) ELSE NoVal
         /\ k \in DOMAIN new.slots
         /\ Cardinality(new.slots[k].echo1) >= HighThreshold
    BY DEF EchoDoes
<1> HIDE DEF new
<1>3. Few(rs, v, G) /\ rs.echo1vals \subseteq {w} /\ rs.term \in {w, NoVal}
    BY DEF Loses, Few
<1>4. Exactly(rs, new, u, {q}, {})
    BY <1>1, ExactlyOfTwo
<1>5. Few(new, v, G)
    BY <1>3, <1>4, ExactlyFew
<1>6. k \in DOMAIN new.slots => new.slots[k].val = u
    BY <1>4 DEF Exactly
<1> HIDE DEF k
<1>7. CASE u = v
  <2>1. ASSUME k \in DOMAIN new.slots
        PROVE  /\ ~(Cardinality(new.slots[k].echo1) >= MinThreshold)
               /\ ~(Cardinality(new.slots[k].echo1) >= HighThreshold)
    <3> DEFINE A == new.slots[k].echo1
    <3>1. A \subseteq G
        BY <1>5, <1>6, <1>7, <2>1 DEF Few
    <3> HIDE DEF A
    <3>2. IsFiniteSet(G)
        BY BinAAAssumption, FS_Subset
    <3>3. Cardinality(A) <= Cardinality(G) /\ Cardinality(A) \in Nat /\ Cardinality(G) \in Nat
        BY <3>1, <3>2, FS_Subset, FS_CardinalityType
    <3>4. ~(Cardinality(A) >= MinThreshold) /\ ~(Cardinality(A) >= HighThreshold)
        BY <3>3, Quorums
    <3> QED
        BY <3>4 DEF A
  <2>2. /\ new.echo1vals = rs.echo1vals /\ new.term = rs.term
        /\ e.echo2 = NoVal /\ e.echo1 = NoVal
      BY <1>2, <2>1
  <2> QED
      BY <1>3, <1>5, <2>2 DEF Loses, Few, new
<1>8. CASE u # v
  <2>1. u = w
      BY <1>8
  <2>2. CASE new.echo1vals = rs.echo1vals /\ new.term = rs.term
      BY <1>3, <1>5, <1>8, <2>2 DEF Loses, Few, new
  <2>3. CASE /\ new.echo1vals = rs.echo1vals \union {u}
             /\ new.term = IF Cardinality(new.echo1vals) = 2
                           THEN Midpoint(new.echo1vals) ELSE NoVal
    <3>1. new.echo1vals = {w}
        BY <1>3, <2>1, <2>3
    <3>2. Cardinality({w}) = 1
        BY FS_Singleton
    <3>3. new.term = NoVal
        BY <2>3, <3>1, <3>2
    <3> QED
        BY <1>5, <1>8, <3>1, <3>3 DEF Loses, Few, new
  <2> QED
      BY <1>2, <2>2, <2>3
<1> QED
    BY <1>7, <1>8

LEMMA Echo2Loses ==
    ASSUME NEW v, NEW w, v # w, NEW S, S = {v, w},
           NEW rs \in StateOf(S, AnyVal), NEW u \in S, u # v,
           NEW q, NEW G, Loses(rs, v, w, G),
           NEW new \in StateOf(S, AnyVal), Echo2Does(rs, u, q, new)
    PROVE  Loses(new, v, w, G)
<1>1. Few(rs, v, G)
    BY DEF Loses, Few
<1>2. Exactly(rs, new, u, {}, {q})
    BY ExactlyOfTwo DEF Echo2Does
<1>3. Few(new, v, G)
    BY <1>1, <1>2, ExactlyFew
<1>4. ASSUME NEW i \in DOMAIN new.slots, Cardinality(new.slots[i].echo2) >= HighThreshold
      PROVE  new.slots[i].val = w
  <2>1. new.slots[i].echo2 # {}
    <3>1. Cardinality({}) = 0
        BY FS_EmptySet
    <3> QED
        BY <1>4, <3>1, Quorums
  <2>2. new.slots[i].val # v
      BY <1>3, <2>1 DEF Few
  <2>3. new.slots[i].val \in {v, w}
      BY StateShape DEF Slot
  <2> QED
      BY <2>2, <2>3
<1>5. new.term \in {w, NoVal}
    BY <1>4 DEF Echo2Does, Loses
<1> QED
    BY <1>3, <1>5 DEF Loses, Few, Echo2Does

LEMMA CountedLoses ==
    ASSUME NEW v \in AnyVal, NEW w \in AnyVal, v # w, NEW S, S = {v, w},
           NEW rs \in StateOf(S, AnyVal), NEW kind, NEW u \in S,
           NEW q \in Node, NEW p \in Node, NEW new, new = Counted(rs, kind, u, q, p),
           NEW G \in SUBSET Node, Cardinality(G) <= NumFaults, Loses(rs, v, w, G),
           u = v => kind # "ECHO2" /\ q \in G,
           NEW e, e = HearEcho(rs, u, q, MinThreshold, HighThreshold)
    PROVE  /\ Loses(new, v, w, G)
           /\ u = v => e.echo1 = NoVal /\ e.echo2 = NoVal
<1>0. S \in SUBSET AnyVal /\ Spans(AnyVal, S)
    BY SpansValues DEF Spans
<1>1. /\ new \in StateOf(S, AnyVal) /\ e.rs \in StateOf(S, AnyVal)
      /\ kind = "ECHO2" => Echo2Does(rs, u, q, new)
      /\ kind # "ECHO2" =>
            /\ EchoDoes(rs, u, q, e)
            /\ e.echo2 = NoVal => new = e.rs
            /\ e.echo2 # NoVal => e.echo2 = u /\ Echo2Does(e.rs, u, p, new)
    BY <1>0, CountedDoes
<1>2. CASE kind = "ECHO2"
  <2>1. u # v /\ Echo2Does(rs, u, q, new)
      BY <1>1, <1>2
  <2> QED
      BY <1>1, <2>1, Echo2Loses
<1>3. CASE kind # "ECHO2"
  <2> DEFINE mid == e.rs
  <2>1. Loses(mid, v, w, G) /\ (u = v => e.echo1 = NoVal /\ e.echo2 = NoVal)
      BY <1>1, <1>3, EchoLoses
  <2>2. CASE e.echo2 = NoVal
      BY <1>1, <1>3, <2>1, <2>2
  <2>3. CASE e.echo2 # NoVal
    <3>1. u # v /\ Echo2Does(mid, u, p, new) /\ mid \in StateOf(S, AnyVal)
        BY <1>1, <1>3, <2>1, <2>3
    <3>2. Loses(mid, v, w, G)
        BY <2>1
    <3> HIDE DEF mid
    <3> QED
        BY <1>1, <3>1, <3>2, Echo2Loses
  <2> QED
      BY <2>2, <2>3
<1> QED
    BY <1>2, <1>3

LEMMA LoneMoves ==
    ASSUME TypeInv, TypeInv', BegunInv, ValidInv, LoneInv, NEW p \in Node, Moves(p)
    PROVE  LoneInv'
<1>1. ASSUME NEW r \in 0 .. Rounds, NEW c \in Checkpoints, NEW v \in AnyVal, NEW w \in AnyVal,
             v # w, StartVals(r, c)' \subseteq {v, w},
             NEW G \in SUBSET Node, G = Beginners(v, r, c)', Cardinality(G) <= NumFaults
      PROVE  /\ \A a \in Node : Loses(node'[a].rs[c][r], v, w, G)
             /\ \A a \in Node : \A x \in Flying(a)' :
                   (x.round = r /\ c \in DOMAIN x.vals /\ x.vals[c] = v) =>
                       x.kind = "ECHO1" /\ a \in G
  <2> DEFINE B == Beginners(v, r, c)
  <2>1. /\ \A a \in Node : Loses(node[a].rs[c][r], v, w, G)
        /\ \A a \in Node : \A m \in Flying(a) :
              (m.round = r /\ c \in DOMAIN m.vals /\ m.vals[c] = v) =>
                  m.kind = "ECHO1" /\ a \in G
    <3>1. StartVals(r, c) \subseteq {v, w}
        BY <1>1, StartValsGrow
    <3>2. B \subseteq G
      <4> SUFFICES ASSUME NEW a \in Node, Began(a, c, r), StartVal(node[a], c, r) = v
                   PROVE  a \in G
          BY DEF Beginners
      <4>1. Began(a, c, r)' /\ StartVal(node'[a], c, r) = v
          BY BeganMoves
      <4> QED
          BY <1>1, <4>1 DEF Beginners
    <3>3. Cardinality(B) <= NumFaults
      <4> HIDE DEF B
      <4>1. IsFiniteSet(G)
          BY <1>1, BinAAAssumption, FS_Subset
      <4>2. /\ Cardinality(B) <= Cardinality(G) /\ Cardinality(B) \in Nat
            /\ Cardinality(G) \in Nat /\ NumFaults \in Nat
          BY <3>2, <4>1, FS_Subset, FS_CardinalityType, BinAAAssumption
      <4> QED
          BY <1>1, <4>2
    <3>4. /\ \A a \in Node : Loses(node[a].rs[c][r], v, w, B)
          /\ \A a \in Node : \A m \in Flying(a) :
                (m.round = r /\ c \in DOMAIN m.vals /\ m.vals[c] = v) =>
                    m.kind = "ECHO1" /\ a \in B
        BY <1>1, <3>1, <3>3 DEF LoneInv
    <3> HIDE DEF B
    <3>5. \A rs : Loses(rs, v, w, B) => Loses(rs, v, w, G)
        BY <3>2 DEF Loses
    <3> QED
        BY <3>2, <3>4, <3>5
  <2>2. /\ \A a \in Node : node[a].rs[c][r] \in StateOf({v, w}, AnyVal)
        /\ \A a \in Node : \A m \in Flying(a) :
              (m.round = r /\ c \in DOMAIN m.vals) => m.vals[c] \in {v, w}
    <3> DEFINE S == StartVals(r, c)
    <3>1. S \subseteq {v, w}
        BY <1>1, StartValsGrow
    <3>2. /\ \A a \in Node : node[a].rs[c][r] \in StateOf(S, Between(S))
          /\ \A a \in Node : \A m \in Flying(a) :
                (m.round = r /\ c \in DOMAIN m.vals) => m.vals[c] \in S
        BY <1>1 DEF ValidInv
    <3>3. Between(S) \subseteq AnyVal
        BY DEF Between
    <3> HIDE DEF S
    <3>4. \A a \in Node : node[a].rs[c][r] \in StateOf({v, w}, AnyVal)
        BY <3>1, <3>2, <3>3, StateOfGrows
    <3> QED
        BY <3>1, <3>2, <3>4
  <2>3. ASSUME NEW q \in Node, NEW m \in Flying(q), m.round = r, Counts(p, q, m, c)
        PROVE  /\ Loses(node'[p].rs[c][r], v, w, G)
               /\ m.vals[c] = v =>
                     LET e == HearEcho(node[p].rs[c][r], m.vals[c], q,
                                       MinThreshold, HighThreshold)
                     IN  e.echo1 = NoVal /\ e.echo2 = NoVal
    <3> DEFINE rs == node[p].rs[c][r]
               new == node'[p].rs[c][r]
               u == m.vals[c]
               k == m.kind
               e == HearEcho(rs, u, q, MinThreshold, HighThreshold)
    <3>1. /\ new = Counted(rs, k, u, q, p) /\ c \in DOMAIN m.vals
          /\ e = HearEcho(rs, u, q, MinThreshold, HighThreshold)
        BY <2>3 DEF Counts
    <3> DEFINE S == {v, w}
    <3>2. rs \in StateOf(S, AnyVal) /\ u \in S /\ S = {v, w}
        BY <2>2, <2>3, <3>1
    <3>3. u = v => k # "ECHO2" /\ q \in G
        BY <2>1, <2>3, <3>1
    <3>4. Loses(rs, v, w, G)
        BY <2>1
    <3> HIDE DEF rs, new, u, k, e, B, S
    <3>5. Loses(new, v, w, G) /\ (u = v => e.echo1 = NoVal /\ e.echo2 = NoVal)
      <4>1. v # w /\ Cardinality(G) <= NumFaults
          BY <1>1
      <4>2. new = Counted(rs, k, u, q, p)
          BY <3>1
      <4>3. e = HearEcho(rs, u, q, MinThreshold, HighThreshold)
          BY <3>1
      <4> QED
          BY <3>2, <3>3, <3>4, <4>1, <4>2, <4>3, CountedLoses
    <3> QED
        BY <3>5 DEF new, e, u, rs
  <2>4. ASSUME r = node'[p].round, Opens(p)
        PROVE  /\ StartVal(node'[p], c, r) \in {v, w}
               /\ StartVal(node'[p], c, r) = v => p \in G
    <3>1. Began(p, c, r)' /\ StartVal(node'[p], c, r) \in StartVals(r, c)'
        BY <1>1, <2>4, OpensBegan
    <3> QED
        BY <1>1, <3>1 DEF Beginners
  <2>5. ASSUME NEW a \in Node PROVE Loses(node'[a].rs[c][r], v, w, G)
    <3>1. CASE a # p
      <4>1. node'[a] = node[a]
          BY <3>1 DEF Moves
      <4> QED
          BY <2>1, <4>1
    <3>2. CASE a = p
      <4>1. CASE node'[p].rs[c][r] = node[p].rs[c][r]
          BY <2>1, <3>2, <4>1
      <4>2. CASE \E q \in Node : \E m \in Flying(q) : m.round = r /\ Counts(p, q, m, c)
          BY <2>3, <3>2, <4>2
      <4>3. CASE r = node'[p].round /\ Opens(p)
        <5> DEFINE u == StartVal(node'[p], c, r)
                   own == OwnStart(u, p)
        <5>1. u \in AnyVal /\ own = OwnStart(u, p) /\ node'[p].rs[c][r] = own.rs
            BY <1>1, <4>3 DEF Opens
        <5>2. u \in {v, w} /\ (u = v => p \in G)
            BY <2>4, <4>3
        <5> HIDE DEF u, own
        <5>3. /\ DOMAIN own.rs.slots = {1} /\ own.rs.slots[1].val = u
              /\ own.rs.slots[1].echo1 = {p} /\ own.rs.slots[1].echo2 = {}
              /\ own.rs.echo1vals = {} /\ own.rs.term = NoVal
            BY <5>1, OwnStartIs
        <5>4. Loses(own.rs, v, w, G)
            BY <5>2, <5>3 DEF Loses
        <5> QED
            BY <3>2, <5>1, <5>4
      <4> QED
          BY <1>1, <3>2, <4>1, <4>2, <4>3 DEF Moves
    <3> QED
        BY <3>1, <3>2
  <2>6. ASSUME NEW a \in Node, NEW x \in Flying(a)', x.round = r, c \in DOMAIN x.vals,
               x.vals[c] = v
        PROVE  x.kind = "ECHO1" /\ a \in G
    <3>0. x \in Message
        BY <2>6, FlyingNext
    <3>1. CASE x \in Flying(a)
        BY <2>1, <2>6, <3>1
    <3>2. CASE a = p /\ Opening(p, x)
      <4>1. /\ x.kind = "ECHO1" /\ node'[p].round = r /\ Opens(p)
            /\ x.vals[c] = StartVal(node'[p], c, node'[p].round)
          BY <2>6, <3>2 DEF Opening, Openings
      <4>2. StartVal(node'[p], c, r) = v
          BY <2>6, <4>1
      <4> QED
          BY <2>4, <3>2, <4>1, <4>2
    <3>3. ~Answering(p, x)
      <4> SUFFICES ASSUME Answering(p, x) PROVE FALSE
          OBVIOUS
      <4>1. PICK q \in Node : \E m \in Flying(q) :
               /\ m.kind = "ECHO1" /\ m.round = x.round /\ Counts(p, q, m, c)
               /\ x.vals[c] = m.vals[c] /\ x.vals[c] # NoVal
               /\ x.kind = "ECHO1" =>
                     x.vals[c] = HearEcho(node[p].rs[c][m.round], m.vals[c], q,
                                          MinThreshold, HighThreshold).echo1
               /\ x.kind = "ECHO2" =>
                     x.vals[c] = HearEcho(node[p].rs[c][m.round], m.vals[c], q,
                                          MinThreshold, HighThreshold).echo2
          BY <2>6, <3>0, AnswerSays
      <4>2. PICK m \in Flying(q) :
               /\ m.round = r /\ Counts(p, q, m, c)
               /\ m.vals[c] = v /\ x.vals[c] # NoVal
               /\ x.kind = "ECHO1" =>
                     x.vals[c] = HearEcho(node[p].rs[c][r], m.vals[c], q,
                                          MinThreshold, HighThreshold).echo1
               /\ x.kind = "ECHO2" =>
                     x.vals[c] = HearEcho(node[p].rs[c][r], m.vals[c], q,
                                          MinThreshold, HighThreshold).echo2
          BY <2>6, <4>1
      <4>3. x.kind = "ECHO1" \/ x.kind = "ECHO2"
          BY <3>0 DEF Message
      <4> QED
          BY <2>3, <4>2, <4>3
    <3> QED
        BY <3>1, <3>2, <3>3, <2>6 DEF Moves
  <2> QED
      BY <2>5, <2>6
<1>2. \A r \in 0 .. Rounds, c \in Checkpoints, v \in AnyVal : Beginners(v, r, c)' \in SUBSET Node
    BY DEF Beginners
<1> QED
    BY <1>1, <1>2 DEF LoneInv

-----------------------------------------------------------------------------
(* The invariant is inductive.                                             *)

LEMMA QuietKeeps ==
    ASSUME BegunInv, ValidInv, GridInv, JustInv, JoinedInv, VotesInv, LoneInv, Quiet
    PROVE  /\ BegunInv' /\ ValidInv' /\ GridInv' /\ JustInv'
           /\ JoinedInv' /\ VotesInv' /\ LoneInv'
<1>1. /\ \A a \in Node : /\ node'[a].input = node[a].input
                         /\ node'[a].round = node[a].round /\ node'[a].rs = node[a].rs
      /\ \A a \in Node : \A m \in Flying(a)' : m \in Flying(a)
    BY DEF Quiet
<1>2. \A a \in Node : \A c, r : /\ StartVal(node'[a], c, r) = StartVal(node[a], c, r)
                                /\ Began(a, c, r)' <=> Began(a, c, r)
    BY <1>1 DEF StartVal, Began
<1>3. \A c, r : StartVals(r, c)' = StartVals(r, c)
    BY <1>2 DEF StartVals
<1>4. Joined' = Joined /\ \A v, r, c : Beginners(v, r, c)' = Beginners(v, r, c)
    BY <1>1, <1>2 DEF Joined, Beginners
<1>5. BegunInv'
    BY <1>1, <1>2 DEF BegunInv
<1>6. ValidInv'
    BY <1>1, <1>3 DEF ValidInv
<1>7. GridInv'
    BY <1>1 DEF GridInv
<1>8. JustInv'
    BY <1>1 DEF JustInv
<1>9. JoinedInv'
  <2>1. \A p \in Node, c \in Checkpoints, r \in 0 .. Rounds :
           \A i \in DOMAIN node'[p].rs[c][r].slots :
              node'[p].rs[c][r].slots[i].echo1 \union node'[p].rs[c][r].slots[i].echo2
                  \subseteq Joined
      BY <1>1 DEF JoinedInv
  <2>2. \A a \in Node : Flying(a)' # {} => a \in Joined
    <3> SUFFICES ASSUME NEW a \in Node, NEW m \in Flying(a)' PROVE a \in Joined
        OBVIOUS
    <3> QED
        BY <1>1 DEF JoinedInv
  <2>3. \A p \in Node, c \in Checkpoints :
           node'[p].round > 0 => Terminated(node'[p].rs[c][node'[p].round - 1])
    <3> SUFFICES ASSUME NEW p \in Node, NEW c \in Checkpoints, node'[p].round > 0
                 PROVE  Terminated(node'[p].rs[c][node'[p].round - 1])
        OBVIOUS
    <3>1. node'[p].round = node[p].round /\ node'[p].rs = node[p].rs
        BY <1>1
    <3>2. Terminated(node[p].rs[c][node[p].round - 1])
        BY <3>1 DEF JoinedInv
    <3> QED
        BY <3>1, <3>2
  <2> QED
      BY <1>4, <2>1, <2>2, <2>3 DEF JoinedInv
<1>10. VotesInv'
  <2>1. \A p \in Node, c \in Checkpoints :
           \A i \in DOMAIN node'[p].rs[c][0].slots :
              \A q \in node'[p].rs[c][0].slots[i].echo2 :
                 node'[p].rs[c][0].slots[i].val \in node'[q].rs[c][0].echo1vals
    <3> SUFFICES ASSUME NEW p \in Node, NEW c \in Checkpoints,
                        NEW i \in DOMAIN node'[p].rs[c][0].slots,
                        NEW q \in node'[p].rs[c][0].slots[i].echo2
                 PROVE  node'[p].rs[c][0].slots[i].val \in node'[q].rs[c][0].echo1vals
        OBVIOUS
    <3>1. node'[p].rs = node[p].rs
        BY <1>1
    <3>2. q \in Joined /\ 0 \in 0 .. Rounds
        BY <3>1, BinAAAssumption DEF JoinedInv
    <3>3. node'[q].rs = node[q].rs
        BY <1>1, <3>2 DEF Joined
    <3> QED
        BY <3>1, <3>3 DEF VotesInv
  <2>2. \A a \in Node : \A m \in Flying(a)' : (m.kind = "ECHO2" /\ m.round = 0) =>
           \A c \in DOMAIN m.vals : m.vals[c] \in node'[a].rs[c][0].echo1vals
      BY <1>1 DEF VotesInv
  <2> QED
      BY <2>1, <2>2 DEF VotesInv
<1>11. LoneInv'
    BY <1>1, <1>3, <1>4 DEF LoneInv
<1> QED
    BY <1>5, <1>6, <1>7, <1>8, <1>9, <1>10, <1>11

LEMMA StepKeeps ==
    ASSUME IInv, [Next]_vars
    PROVE  IInv'
<1>1. /\ TypeInv /\ BegunInv /\ ValidInv /\ GridInv
      /\ JustInv /\ JoinedInv /\ VotesInv /\ LoneInv
    BY DEF IInv
<1>2. TypeInv' /\ (Quiet \/ \E p \in Node : Moves(p))
    BY <1>1, StepDoes
<1>3. CASE Quiet
    BY <1>1, <1>2, <1>3, QuietKeeps DEF IInv
<1>4. ASSUME NEW p \in Node, Moves(p) PROVE IInv'
  <2>1. BegunInv'
      BY <1>1, <1>2, <1>4, BegunMoves
  <2>2. ValidInv'
      BY <1>1, <1>2, <1>4, <2>1, ValidMoves
  <2>3. GridInv'
      BY <1>1, <1>2, <1>4, GridMoves
  <2>4. JustInv'
      BY <1>1, <1>2, <1>4, JustMoves
  <2>5. JoinedInv'
      BY <1>1, <1>2, <1>4, JoinedMoves
  <2>6. VotesInv'
      BY <1>1, <1>2, <1>4, VotesMoves
  <2>7. LoneInv'
      BY <1>1, <1>2, <1>4, LoneMoves
  <2> QED
      BY <1>2, <2>1, <2>2, <2>3, <2>4, <2>5, <2>6, <2>7 DEF IInv
<1> QED
    BY <1>2, <1>3, <1>4

LEMMA NoStateIn ==
    ASSUME NEW S, NEW T
    PROVE  /\ NoState \in StateOf(S, T) /\ Justified(NoState)
           /\ NoState.slots = <<>> /\ DOMAIN NoState.slots = {}
           /\ NoState.echo1vals = {} /\ NoState.term = NoVal
<1>1. /\ NoState.slots = <<>> /\ NoState.echo1vals = {} /\ NoState.term = NoVal
      /\ NoState = [slots |-> <<>>, echo1vals |-> {}, term |-> NoVal]
    BY DEF NoState
<1>2. <<>> \in Seq(Slot(S)) /\ Len(<<>>) = 0 /\ DOMAIN <<>> = {}
    OBVIOUS
<1>3. NoState \in [slots : Seq(Slot(S)), echo1vals : SUBSET S, term : T \union {NoVal}]
    BY <1>1, <1>2
<1> QED
    BY <1>1, <1>2, <1>3 DEF StateOf, Justified, Terminated

LEMMA InitDoes ==
    ASSUME Init
    PROVE  IInv
<1>1. PICK input \in Inputs : node = [p \in Node |-> Idle(input[p])]
    BY DEF Init
<1>2. /\ link = [p \in Node |-> [q \in Node |-> <<>>]] /\ output = {} /\ crashed = {}
    BY DEF Init
<1>3. input \in [Node -> [Checkpoints -> {0, MaxInput}]]
    BY <1>1, BinAAAssumption
<1>4. ASSUME NEW p \in Node
      PROVE  /\ node[p] \in Task /\ node[p].round = -1
             /\ \A c \in Checkpoints, r \in 0 .. Rounds : node[p].rs[c][r] = NoState
  <2> DEFINE nd == node[p]
             rs == [c \in Checkpoints |-> [k \in 0 .. Rounds |-> NoState]]
  <2>1. nd = [input |-> input[p], round |-> -1, rs |-> rs,
              out |-> 0, blocked |-> FALSE, sent |-> <<>>]
      BY <1>1 DEF Idle
  <2>2. rs \in [Checkpoints -> [0 .. Rounds -> StateOf(AnyVal, AnyVal)]]
      BY NoStateIn
  <2>3. input[p] \in [Checkpoints -> {0, MaxInput}] /\ -1 \in -1 .. Rounds + 1 /\ 0 \in 0 .. 1
      BY <1>3, BinAAAssumption
  <2>4. \A c \in Checkpoints, r \in 0 .. Rounds : rs[c][r] = NoState
      OBVIOUS
  <2> HIDE DEF nd, rs
  <2>5. nd \in Task /\ nd.round = -1 /\ nd.rs = rs
      BY <2>1, <2>2, <2>3 DEF Task
  <2> QED
      BY <2>4, <2>5 DEF nd
<1>5. \A a \in Node, b \in Node : link[a][b] = <<>> /\ <<>> \in Seq(Message)
    BY <1>2
<1>6. \A a \in Node : Flying(a) = {}
    BY <1>5 DEF Flying
<1>7. TypeInv
  <2>1. node \in [Node -> Task]
      BY <1>1, <1>4
  <2>2. link \in [Node -> [Node -> Seq(Message)]]
      BY <1>2, <1>5
  <2> QED
      BY <1>2, <1>5, <2>1, <2>2 DEF TypeInv
<1>8. /\ DOMAIN NoState.slots = {} /\ NoState.slots = <<>> /\ Justified(NoState)
      /\ NoState.echo1vals = {} /\ NoState.term = NoVal
    BY NoStateIn
<1>9. BegunInv
    BY <1>4, <1>8 DEF BegunInv, Began
<1>10. ValidInv
  <2>1. \A p \in Node, c \in Checkpoints, r \in 0 .. Rounds :
           node[p].rs[c][r] \in StateOf(StartVals(r, c), Between(StartVals(r, c)))
      BY <1>4, NoStateIn
  <2> QED
      BY <1>6, <2>1 DEF ValidInv
<1>11. GridInv
  <2>1. \A p \in Node, c \in Checkpoints, r \in 0 .. Rounds :
           node[p].rs[c][r] \in StateOf(Grid(r), Grid(r + 1))
      BY <1>4, NoStateIn
  <2> QED
      BY <1>6, <2>1 DEF GridInv
<1>12. JustInv
    BY <1>4, <1>8 DEF JustInv
<1>13. JoinedInv
    BY <1>4, <1>6, <1>8 DEF JoinedInv
<1>14. 0 \in 0 .. Rounds
    BY BinAAAssumption
<1>15. VotesInv
    BY <1>4, <1>6, <1>8, <1>14 DEF VotesInv
<1>16. LoneInv
    BY <1>4, <1>6, <1>8 DEF LoneInv, Loses
<1> QED
    BY <1>7, <1>9, <1>10, <1>11, <1>12, <1>13, <1>15, <1>16 DEF IInv

\* The invariant holds in every state the rounds can reach.
LEMMA Invariant == Spec => []IInv
<1>1. Init => IInv
    BY InitDoes
<1>2. IInv /\ [Next]_vars => IInv'
    BY StepKeeps
<1> QED
    BY <1>1, <1>2, PTL DEF Spec

-----------------------------------------------------------------------------
(* What the invariant means.                                               *)

\* Tasks and messages keep their shape: no round state ever gets a third slot.
THEOREM TypeCorrect == Spec => []TypeOK
<1>1. ASSUME TypeInv PROVE TypeOK
  <2>1. \A p \in Node : /\ node[p].round \in -1 .. Rounds + 1
                        /\ node[p].out \in 0 .. 1 /\ node[p].blocked \in BOOLEAN
                        /\ node[p].sent = <<>>
    <3>1. \A p \in Node : node[p] \in Task
        BY <1>1 DEF TypeInv
    <3> QED
        BY <3>1 DEF Task
  <2>2. ASSUME NEW p \in Node, NEW c \in Checkpoints, NEW r \in 0 .. Rounds
        PROVE  LET rs == node[p].rs[c][r]
               IN  /\ DOMAIN rs = {"slots", "echo1vals", "term"}
                   /\ Len(rs.slots) <= 2
                   /\ rs.echo1vals \subseteq AnyVal
                   /\ rs.term \in AnyVal \union {NoVal}
                   /\ \A i \in DOMAIN rs.slots :
                         /\ rs.slots[i].val \in AnyVal
                         /\ rs.slots[i].echo1 \union rs.slots[i].echo2 \subseteq Node
    <3> DEFINE rs == node[p].rs[c][r]
    <3>1. rs \in StateOf(AnyVal, AnyVal)
        BY <1>1, StateIn
    <3> HIDE DEF rs
    <3>2. Len(rs.slots) <= 2
        BY <3>1 DEF StateOf
    <3>3. /\ rs \in [slots : Seq(Slot(AnyVal)), echo1vals : SUBSET AnyVal,
                     term : AnyVal \union {NoVal}]
          /\ \A i \in DOMAIN rs.slots : rs.slots[i] \in Slot(AnyVal)
        BY <3>1, StateShape
    <3>4. \A i \in DOMAIN rs.slots :
             /\ rs.slots[i].val \in AnyVal
             /\ rs.slots[i].echo1 \union rs.slots[i].echo2 \subseteq Node
        BY <3>3 DEF Slot
    <3> QED
        BY <3>2, <3>3, <3>4 DEF rs
  <2>3. ASSUME NEW p \in Node, NEW q \in Node, NEW i \in DOMAIN link[p][q]
        PROVE  /\ link[p][q][i].kind \in {"ECHO1", "ECHO2"}
               /\ link[p][q][i].round \in 0 .. Rounds
               /\ DOMAIN link[p][q][i].vals \subseteq Checkpoints
    <3>1. link[p][q][i] \in Flying(p)
        BY InFlight
    <3> QED
        BY <1>1, <3>1, FlyingIn DEF Message
  <2> QED
      BY <1>1, <2>1, <2>2, <2>3 DEF TypeOK, TypeInv
<1> QED
    BY <1>1, Invariant, PTL DEF IInv

\* A round ends within the range it began with, and the next begins with what it
\* ended with, for any order of messages and any crash.
LEMMA ValidRounds ==
    ASSUME BegunInv, ValidInv
    PROVE  RoundValidity
<1> SUFFICES ASSUME NEW r \in 0 .. Rounds, NEW c \in Checkpoints
             PROVE  /\ \A v \in EndVals(r, c) : \E lo \in StartVals(r, c),
                          hi \in StartVals(r, c) : lo <= v /\ v <= hi
                    /\ r < Rounds => StartVals(r + 1, c) \subseteq EndVals(r, c)
    BY DEF RoundValidity
<1>1. ASSUME NEW v \in EndVals(r, c)
      PROVE  \E lo \in StartVals(r, c), hi \in StartVals(r, c) : lo <= v /\ v <= hi
  <2> DEFINE S == StartVals(r, c)
  <2>1. PICK p \in Node : v = node[p].rs[c][r].term /\ v # NoVal
      BY <1>1 DEF EndVals
  <2>2. node[p].rs[c][r] \in StateOf(S, Between(S))
      BY DEF ValidInv
  <2> HIDE DEF S
  <2>3. node[p].rs[c][r].term \in Between(S) \union {NoVal}
      BY <2>2, TermIn, Zenon
  <2>4. v \in Between(S)
      BY <2>1, <2>3, Zenon
  <2> QED
      BY <2>4 DEF Between, S
<1>2. ASSUME r < Rounds, NEW v \in StartVals(r + 1, c) PROVE v \in EndVals(r, c)
  <2> DEFINE k == r + 1
  <2>1. k \in 0 .. Rounds /\ k # 0 /\ k - 1 = r
      BY <1>2, BinAAAssumption
  <2>2. PICK p \in Node : Began(p, c, k) /\ v = StartVal(node[p], c, k)
      BY <1>2 DEF StartVals
  <2> HIDE DEF k
  <2>3. v # NoVal /\ v = node[p].rs[c][r].term
      BY <2>1, <2>2 DEF BegunInv, StartVal
  <2> QED
      BY <2>3 DEF EndVals
<1> QED
    BY <1>1, <1>2

THEOREM RoundValidityHolds == Spec => []RoundValidity
<1>1. IInv => RoundValidity
    BY ValidRounds DEF IInv
<1> QED
    BY <1>1, Invariant, PTL

\* A round that ends with one of the two values it was begun with ends by a quorum of
\* ECHO2s for it: the midpoint is neither.
LEMMA EndedByQuorum ==
    ASSUME NEW r \in 0 .. Rounds, NEW v, NEW w, NEW T, NEW rs \in StateOf({v, w}, T),
           rs \in StateOf(Grid(r), Grid(r + 1)), Justified(rs), Terminated(rs),
           rs.term \in {v, w}
    PROVE  \E i \in DOMAIN rs.slots :
              rs.slots[i].val = rs.term /\ Cardinality(rs.slots[i].echo2) >= HighThreshold
<1> SUFFICES ASSUME Cardinality(rs.echo1vals) = 2, rs.term = Midpoint(rs.echo1vals)
             PROVE  FALSE
    BY DEF Justified
<1> DEFINE vals == rs.echo1vals
           G == Grid(r)
<1>1. vals \subseteq {v, w}
    BY StateShape
<1>2. vals \subseteq G
  <2>1. \A U : rs \in StateOf(G, U) => rs.echo1vals \subseteq G
      BY DEF StateOf
  <2> QED
      BY <2>1
<1>3. G \subseteq AnyVal /\ \A x \in G, y \in G : x < y =>
         x < (x + y) \div 2 /\ (x + y) \div 2 < y
    BY SpansGrid
<1>4. IsFiniteSet(AnyVal) /\ AnyVal \subseteq Nat
    BY ValuesFinite
<1> HIDE DEF G
<1>5. vals \in SUBSET Int /\ IsFiniteSet(vals) /\ Cardinality(vals) = 2
  <2>1. Cardinality(vals) = 2
      OBVIOUS
  <2> HIDE DEF vals
  <2>2. vals \subseteq AnyVal
      BY <1>2, <1>3
  <2>3. IsFiniteSet(vals)
      BY <1>4, <2>2, FS_Subset
  <2>4. \A z \in vals : z \in Int
      BY <1>4, <2>2
  <2> QED
      BY <2>1, <2>3, <2>4
<1>6. rs.term = Midpoint(vals)
    OBVIOUS
<1> HIDE DEF vals
<1>7. PICK x \in vals, y \in vals :
         x < y /\ vals = {x, y} /\ Midpoint(vals) = (x + y) \div 2
    BY <1>5, MidpointOfTwo
<1>8. {v, w} = {x, y} /\ x \in Int /\ y \in Int
    BY <1>1, <1>5, <1>7
<1>9. x < (x + y) \div 2 /\ (x + y) \div 2 < y
    BY <1>2, <1>3, <1>7
<1>10. rs.term = x \/ rs.term = y
    BY <1>8
<1> QED
    BY <1>6, <1>7, <1>8, <1>9, <1>10

\* Two quorums share as many nodes as are in both when together they miss the most.
LEMMA QuorumsShare ==
    ASSUME NEW A \in SUBSET Node, NEW B \in SUBSET Node,
           Cardinality(A) >= HighThreshold, Cardinality(B) >= HighThreshold
    PROVE  Cardinality(A \cap B) >= NumNodes - 2 * NumFaults
<1>1. IsFiniteSet(A) /\ IsFiniteSet(B) /\ IsFiniteSet(A \cap B) /\ IsFiniteSet(A \union B)
    BY BinAAAssumption, FS_Subset
<1>2. /\ Cardinality(A \union B) = Cardinality(A) + Cardinality(B) - Cardinality(A \cap B)
      /\ Cardinality(A \union B) <= NumNodes
    BY <1>1, BinAAAssumption, FS_Union, FS_Subset DEF NumNodes
<1>3. /\ Cardinality(A) \in Nat /\ Cardinality(B) \in Nat
      /\ Cardinality(A \cap B) \in Nat /\ Cardinality(A \union B) \in Nat
    BY <1>1, FS_CardinalityType
<1>4. NumNodes \in Nat /\ NumFaults \in Nat /\ HighThreshold = NumNodes - NumFaults
    BY Quorums DEF HighThreshold
<1> QED
    BY <1>2, <1>3, <1>4

\* An ECHO2 that somebody counted is a vote of its sender.
LEMMA CountedIsVoted ==
    ASSUME VotesInv, NEW p \in Node, NEW c \in Checkpoints, NEW r,
           NEW i \in DOMAIN node[p].rs[c][r].slots,
           NEW m \in node[p].rs[c][r].slots[i].echo2,
           node[p].rs[c][r].slots[i].val \in AnyVal
    PROVE  node[p].rs[c][r].slots[i].val \in Votes(m, r, c)
<1>1. CASE r = 0
    BY <1>1, Zenon DEF VotesInv, Votes
<1>2. CASE r # 0
    BY <1>2, Zenon DEF Votes
<1> QED
    BY <1>1, <1>2

\* Nodes that end a round with the two opposite values share n - 2f nodes that voted for
\* both.
LEMMA OppositesShare ==
    ASSUME IInv
    PROVE  OppositesShareVoters
<1> SUFFICES ASSUME NEW r \in 0 .. Rounds, NEW c \in Checkpoints,
                    NEW v \in EndVals(r, c), NEW w \in EndVals(r, c),
                    v # w, StartVals(r, c) = {v, w}
             PROVE  Cardinality({m \in Node : {v, w} \subseteq Votes(m, r, c)})
                        >= NumNodes - 2 * NumFaults
    BY DEF OppositesShareVoters
<1>1. TypeInv /\ ValidInv /\ GridInv /\ JustInv /\ VotesInv
    BY DEF IInv
<1>2. ASSUME NEW x \in EndVals(r, c), x \in {v, w}
      PROVE  \E A \in SUBSET Node : /\ Cardinality(A) >= HighThreshold
                                    /\ \A m \in A : x \in Votes(m, r, c)
  <2>1. PICK p \in Node : x = node[p].rs[c][r].term /\ x # NoVal
      BY <1>2 DEF EndVals
  <2> DEFINE rs == node[p].rs[c][r]
             T == Between({v, w})
  <2>2. /\ rs \in StateOf({v, w}, T) /\ rs \in StateOf(Grid(r), Grid(r + 1))
        /\ rs \in StateOf(AnyVal, AnyVal) /\ Justified(rs) /\ x = rs.term /\ Terminated(rs)
        /\ rs.term \in {v, w}
      BY <1>1, <1>2, <2>1, StateIn DEF ValidInv, GridInv, JustInv, Terminated
  <2> HIDE DEF rs, T
  <2>3. PICK i \in DOMAIN rs.slots :
           rs.slots[i].val = x /\ Cardinality(rs.slots[i].echo2) >= HighThreshold
    <3>1. \E i \in DOMAIN rs.slots :
             rs.slots[i].val = rs.term /\ Cardinality(rs.slots[i].echo2) >= HighThreshold
        BY <2>2, EndedByQuorum
    <3> QED
        BY <2>2, <3>1
  <2> DEFINE A == rs.slots[i].echo2
  <2>4. A \subseteq Node /\ x \in AnyVal
    <3>1. rs.slots[i] \in Slot(AnyVal)
        BY <2>2, StateShape
    <3> QED
        BY <2>3, <3>1 DEF Slot
  <2>5. ASSUME NEW m \in A PROVE x \in Votes(m, r, c)
      BY <1>1, <2>3, <2>4, CountedIsVoted DEF rs
  <2> QED
      BY <2>3, <2>4, <2>5
<1>3. PICK A \in SUBSET Node : /\ Cardinality(A) >= HighThreshold
                               /\ \A m \in A : v \in Votes(m, r, c)
    BY <1>2
<1>4. PICK B \in SUBSET Node : /\ Cardinality(B) >= HighThreshold
                               /\ \A m \in B : w \in Votes(m, r, c)
    BY <1>2
<1> DEFINE both == {m \in Node : {v, w} \subseteq Votes(m, r, c)}
<1>5. A \cap B \subseteq both /\ IsFiniteSet(both) /\ both \subseteq Node
    BY <1>3, <1>4, BinAAAssumption, FS_Subset
<1> HIDE DEF both
<1>6. /\ Cardinality(A \cap B) <= Cardinality(both)
      /\ Cardinality(A \cap B) \in Nat /\ Cardinality(both) \in Nat
    BY <1>5, FS_Subset, FS_CardinalityType
<1>7. Cardinality(A \cap B) >= NumNodes - 2 * NumFaults
    BY <1>3, <1>4, QuorumsShare
<1>8. Cardinality(both) >= NumNodes - 2 * NumFaults
    BY <1>6, <1>7, Quorums
<1> QED
    BY <1>8 DEF both

\* Opposite ends of a round rest on quorums that share voters, never on two camps.
THEOREM OppositesShareVotersHolds == Spec => []OppositesShareVoters
<1>1. IInv => OppositesShareVoters
    BY OppositesShare
<1> QED
    BY <1>1, Invariant, PTL

\* The value of at most f nodes loses every round: it gets no vote in round 0, so every
\* later round begins, and ends, with the other value alone.
LEMMA LoneLoses ==
    ASSUME IInv
    PROVE  LoneInputLoses
<1> SUFFICES ASSUME NEW c \in Checkpoints, NEW v \in Ends,
                    Cardinality({p \in Node : node[p].input[c] = v}) <= NumFaults
             PROVE  \A r \in 0 .. Rounds : EndVals(r, c) \subseteq {MaxInput - v}
    BY DEF LoneInputLoses, Ends
<1> DEFINE w == MaxInput - v
           bad == {r \in 0 .. Rounds : ~(EndVals(r, c) \subseteq {w})}
<1>1. TypeInv /\ BegunInv /\ ValidInv /\ LoneInv /\ RoundValidity
    BY ValidRounds DEF IInv
<1>2. SUFFICES ASSUME bad # {} PROVE FALSE
    OBVIOUS
<1>3. PICK r \in bad : \A k \in bad : r <= k
  <2>1. bad \subseteq Nat
      OBVIOUS
  <2> HIDE DEF bad
  <2> QED
      BY <1>2, <2>1, LeastNatural
<1>4. r # 0
  <2>1. 0 \in 0 .. Rounds /\ v \in AnyVal /\ w \in AnyVal /\ v # w
      BY BinAAAssumption, EndsAre
  <2>2. StartVals(0, c) \subseteq {v, w}
      BY <1>1, EndsAre, StateIn DEF StartVals, StartVal, Ends
  <2>3. Cardinality(Beginners(v, 0, c)) <= NumFaults
    <3> DEFINE H == {p \in Node : node[p].input[c] = v}
               B == Beginners(v, 0, c)
    <3>1. B \subseteq H
        BY DEF Beginners, StartVal
    <3>2. IsFiniteSet(H)
        BY BinAAAssumption, FS_Subset
    <3>3. Cardinality(H) <= NumFaults
        OBVIOUS
    <3> HIDE DEF H, B
    <3>4. /\ Cardinality(B) <= Cardinality(H) /\ Cardinality(B) \in Nat
          /\ Cardinality(H) \in Nat /\ NumFaults \in Nat
        BY <3>1, <3>2, FS_Subset, FS_CardinalityType, BinAAAssumption
    <3>5. Cardinality(B) <= NumFaults
        BY <3>3, <3>4
    <3> QED
        BY <3>5 DEF B
  <2>4. \A p \in Node : node[p].rs[c][0].term \in {w, NoVal}
    <3> HIDE DEF w
    <3>1. \A p \in Node : Loses(node[p].rs[c][0], v, w, Beginners(v, 0, c))
        BY <1>1, <2>1, <2>2, <2>3 DEF LoneInv
    <3> QED
        BY <3>1 DEF Loses
  <2>5. EndVals(0, c) \subseteq {w}
      BY <2>4 DEF EndVals
  <2> QED
      BY <1>3, <2>5
<1> DEFINE k == r - 1
<1>5. k \in 0 .. Rounds /\ k + 1 = r /\ k < Rounds /\ k \notin bad
    BY <1>3, <1>4, BinAAAssumption
<1>6. EndVals(k, c) \subseteq {w} /\ r \in 0 .. Rounds
    BY <1>3, <1>5
<1>7. StartVals(r, c) \subseteq {w}
  <2>1. StartVals(k + 1, c) \subseteq EndVals(k, c)
      BY <1>1, <1>5 DEF RoundValidity
  <2> HIDE DEF k
  <2> QED
      BY <1>5, <1>6, <2>1
<1>8. ASSUME NEW x \in EndVals(r, c) PROVE x = w
  <2>1. PICK lo \in StartVals(r, c), hi \in StartVals(r, c) : lo <= x /\ x <= hi
      BY <1>1, <1>6, <1>8 DEF RoundValidity
  <2>2. lo = w /\ hi = w
      BY <1>7, <2>1
  <2>3. w \in Nat
      BY EndsAre, ValuesFinite
  <2>4. x \in Nat
    <3>1. PICK p \in Node : x = node[p].rs[c][r].term /\ x # NoVal
        BY <1>8 DEF EndVals
    <3>2. node[p].rs[c][r] \in StateOf(AnyVal, AnyVal)
        BY <1>1, <1>6, StateIn
    <3>3. x \in AnyVal
        BY <3>1, <3>2, StateShape
    <3> QED
        BY <3>3, ValuesFinite
  <2> HIDE DEF w
  <2> QED
      BY <2>1, <2>2, <2>3, <2>4
<1> QED
    BY <1>3, <1>8

\* Up to f nodes with an input of their own never sway a round, whenever they are heard.
THEOREM LoneInputLosesHolds == Spec => []LoneInputLoses
<1>1. IInv => LoneInputLoses
    BY LoneLoses
<1> QED
    BY <1>1, Invariant, PTL

\* In a round of two values, one that at most f nodes begin with is heard only from them.
LEMMA LoneLosesRound ==
    ASSUME IInv
    PROVE  LoneValueLoses
<1> SUFFICES ASSUME NEW r \in 0 .. Rounds, NEW c \in Checkpoints,
                    Cardinality(StartVals(r, c)) <= 2, NEW v \in StartVals(r, c),
                    Cardinality(Beginners(v, r, c)) <= NumFaults
             PROVE  v \notin EndVals(r, c)
    BY DEF LoneValueLoses, LosesRound
<1> DEFINE S == StartVals(r, c)
<1>1. TypeInv /\ BegunInv /\ LoneInv
    BY DEF IInv
<1>2. S \in SUBSET AnyVal /\ IsFiniteSet(S)
  <2>1. S \in SUBSET AnyVal
      BY <1>1, StartValsIn
  <2> QED
      BY <2>1, ValuesFinite, FS_Subset
<1>3. PICK w \in AnyVal : w # v /\ S \subseteq {v, w}
  <2>1. CASE S \subseteq {v}
    <3> DEFINE M == MaxInput
    <3>1. M \in Nat /\ AnyVal = 0 .. M /\ M # 0
      <4>1. 0 \in Ends /\ M - 0 # 0
          BY EndsAre DEF Ends
      <4>2. M \in Nat
          BY ValuesFinite
      <4> HIDE DEF M
      <4>3. M # 0
          BY <4>1, <4>2
      <4> QED
          BY <4>2, <4>3 DEF AnyVal, M
    <3> HIDE DEF M
    <3>2. 0 \in AnyVal /\ M \in AnyVal /\ M # 0
        BY <3>1
    <3> QED
        BY <2>1, <3>2
  <2>2. CASE ~(S \subseteq {v})
    <3>1. PICK w \in S : w # v
        BY <2>2
    <3>2. ASSUME NEW x \in S, x # v, x # w PROVE FALSE
      <4> HIDE DEF S
      <4> DEFINE A == {v, w, x}
      <4>1. Cardinality({}) = 0 /\ IsFiniteSet({})
          BY FS_EmptySet
      <4>2. IsFiniteSet({x}) /\ Cardinality({x}) = 1
          BY FS_Singleton
      <4>3. IsFiniteSet({x} \union {w}) /\ Cardinality({x} \union {w}) = 2
          BY <3>2, <4>2, FS_AddElement
      <4>4. Cardinality(({x} \union {w}) \union {v}) = 3
        <5>1. v \notin {x} \union {w}
            BY <3>1, <3>2
        <5> QED
            BY <4>3, <5>1, FS_AddElement
      <4>5. ({x} \union {w}) \union {v} = A
          OBVIOUS
      <4>6. A \subseteq S /\ Cardinality(A) = 3
          BY <3>1, <4>4, <4>5 DEF S
      <4> HIDE DEF A
      <4>7. Cardinality(A) <= Cardinality(S) /\ Cardinality(S) \in Nat
          BY <1>2, <4>6, FS_Subset, FS_CardinalityType
      <4>8. Cardinality(S) <= 2
          BY DEF S
      <4> QED
          BY <4>6, <4>7, <4>8
    <3>3. S \subseteq {v, w}
        BY <3>2
    <3> QED
        BY <1>2, <3>1, <3>3
  <2> QED
      BY <2>1, <2>2
<1>4. v \in AnyVal
    BY <1>2
<1>5. \A p \in Node : Loses(node[p].rs[c][r], v, w, Beginners(v, r, c))
    BY <1>1, <1>3, <1>4 DEF LoneInv
<1>6. \A p \in Node : node[p].rs[c][r].term \in {w, NoVal}
    BY <1>5 DEF Loses
<1>7. v # NoVal
    BY <1>4, ValuesFinite DEF NoVal
<1> QED
    BY <1>3, <1>6, <1>7 DEF EndVals

\* A value that at most f nodes begin a round with is not what anybody ends the round
\* with, as long as the round is one of two values at most.
THEOREM LoneValueLosesHolds == Spec => []LoneValueLoses
<1>1. IInv => LoneValueLoses
    BY LoneLosesRound
<1> QED
    BY <1>1, Invariant, PTL

\* Whoever has left round 0 has heard a quorum in the round before its own, all of which
\* have joined.
LEMMA Quorate ==
    ASSUME TypeInv, JustInv, JoinedInv
    PROVE  EndsQuorate
<1> SUFFICES ASSUME NEW p \in Node, NEW c \in Checkpoints, node[p].round > 0
             PROVE  Cardinality(Joined) >= HighThreshold
    BY DEF EndsQuorate, Joined
<1> DEFINE r == node[p].round - 1
           rs == node[p].rs[c][r]
<1>1. r \in 0 .. Rounds /\ Terminated(rs)
  <2>1. node[p].round \in -1 .. Rounds + 1
      BY StateIn
  <2> QED
      BY <2>1, BinAAAssumption DEF JoinedInv
<1> HIDE DEF r
<1>2. /\ Justified(rs) /\ \A i \in DOMAIN rs.slots :
            rs.slots[i].echo1 \subseteq Joined /\ rs.slots[i].echo2 \subseteq Joined
    BY <1>1 DEF JustInv, JoinedInv
<1> HIDE DEF rs
<1>3. PICK A \in SUBSET Joined : Cardinality(A) >= HighThreshold
  <2>1. CASE \E i \in DOMAIN rs.slots : Cardinality(rs.slots[i].echo2) >= HighThreshold
      BY <1>2, <2>1
  <2>2. CASE Cardinality(rs.echo1vals) = 2
    <3>1. rs.echo1vals # {}
        BY <2>2, FS_EmptySet
    <3>2. PICK i \in DOMAIN rs.slots : Cardinality(rs.slots[i].echo1) >= HighThreshold
        BY <1>2, <3>1 DEF Justified
    <3> QED
        BY <1>2, <3>2
  <2> QED
      BY <1>1, <1>2, <2>1, <2>2 DEF Justified
<1>4. IsFiniteSet(Joined)
    BY BinAAAssumption, FS_Subset DEF Joined
<1>5. Cardinality(A) <= Cardinality(Joined) /\ Cardinality(A) \in Nat
      /\ Cardinality(Joined) \in Nat
    BY <1>3, <1>4, FS_Subset, FS_CardinalityType
<1> QED
    BY <1>3, <1>5, Quorums

\* No quorum without n - f nodes that joined: fewer never get past round 0.
THEOREM EndsQuorateHolds == Spec => []EndsQuorate
<1>1. IInv => EndsQuorate
    BY Quorate DEF IInv
<1> QED
    BY <1>1, Invariant, PTL

\* A step counts messages of rounds its node has not left, and begins only a later one.
LEMMA SettledStays ==
    ASSUME TypeInv, [Next]_vars, NEW p \in Node
    PROVE  /\ node'[p].round >= node[p].round
           /\ \A c \in Checkpoints, r \in 0 .. Rounds :
                 r < node[p].round => node'[p].rs[c][r] = node[p].rs[c][r]
<1>1. TypeInv' /\ (Quiet \/ \E a \in Node : Moves(a))
    BY StepDoes
<1>2. node[p].round \in Int /\ node'[p].round \in Int
    BY <1>1 DEF TypeInv, Task
<1>3. CASE Quiet
    BY <1>2, <1>3 DEF Quiet
<1>4. ASSUME NEW a \in Node, Moves(a)
      PROVE  /\ node'[p].round >= node[p].round
             /\ \A c \in Checkpoints, r \in 0 .. Rounds :
                   r < node[p].round => node'[p].rs[c][r] = node[p].rs[c][r]
  <2>1. CASE p # a
    <3>1. node'[p] = node[p]
        BY <1>4, <2>1 DEF Moves
    <3> QED
        BY <1>2, <3>1
  <2>2. CASE p = a
    <3>1. node'[p].round >= node[p].round
        BY <1>2, <1>4, <2>2 DEF Moves, Opens
    <3>2. ASSUME NEW c \in Checkpoints, NEW r \in 0 .. Rounds, r < node[p].round,
                 node'[p].rs[c][r] # node[p].rs[c][r]
          PROVE  FALSE
      <4>1. \/ \E q \in Node : \E m \in Flying(q) : m.round = r /\ Counts(p, q, m, c)
            \/ r = node'[p].round /\ Opens(p)
          BY <1>4, <2>2, <3>2 DEF Moves
      <4>2. ~(r = node'[p].round /\ Opens(p))
          BY <1>2, <3>2 DEF Opens
      <4>3. PICK q \in Node : \E m \in Flying(q) : m.round = r /\ Counts(p, q, m, c)
          BY <4>1, <4>2
      <4>4. node[p].round <= r
          BY <4>3 DEF Counts
      <4> QED
          BY <1>2, <3>2, <4>4
    <3> QED
        BY <3>1, <3>2
  <2> QED
      BY <2>1, <2>2
<1> QED
    BY <1>1, <1>3, <1>4

\* Rounds only go forward, and the round states a node has left do not change: a handler
\* that goes on twice begins the same round twice, and late messages are ignored.
THEOREM PassedIsFinalHolds == Spec => PassedIsFinal
<1>1. IInv /\ [Next]_vars =>
        [\A p \in Node :
            /\ node'[p].round >= node[p].round
            /\ \A c \in Checkpoints, r \in 0 .. Rounds :
                  r < node[p].round => node'[p].rs[c][r] = node[p].rs[c][r]]_vars
    BY SettledStays DEF IInv
<1> QED
    BY <1>1, Invariant, PTL DEF Spec, PassedIsFinal
-----------------------------------------------------------------------------
(* A result is handed over once, when all rounds are over.                 *)

OnceInv ==
    \A p \in Node :
        /\ node[p].out # 0 \/ p \in output => node[p].round = Rounds + 1
        /\ p \in output => node[p].out = 0

\* A round begun leaves the result, or its absence, alone.
LEMMA BegunKeepsOut ==
    ASSUME NEW h \in TaskSending(Message), NEW p \in Node, NEW k \in 0 .. Rounds, k # Rounds,
           TerminatedRound(h, k), NEW new, Begun(h, new, p, k)
    PROVE  new.out = h.out
<1> DEFINE r == k + 1
           once == StartBaa(h, p, r)
<1>1. r \in 0 .. Rounds /\ r # 0 /\ r - 1 = k /\ k # r
    BY BinAAAssumption
<1>2. \A nd, c : StartVal(nd, c, r) = nd.rs[c][k].term
    BY <1>1 DEF StartVal
<1>3. ASSUME NEW c \in Checkpoints PROVE StartVal(h, c, r) \in AnyVal
    <2>1. h.rs[c][k].term \in AnyVal \union {NoVal}
        BY TaskShape
    <2> QED
        BY <1>2, <2>1 DEF TerminatedRound, Terminated
<1>4. \A nd : Openings(nd, r) \subseteq Message
    BY DEF Openings
<1>5. once = StartBaa(h, p, r)
    OBVIOUS
<1>6. new = once \/ new = StartBaa(once, p, r)
    BY DEF Begun
<1> HIDE DEF r, once
<1>7. /\ once \in TaskSending(Message) /\ once.out = h.out
      /\ \A c \in Checkpoints, j \in 0 .. Rounds : j # r => once.rs[c][j] = h.rs[c][j]
    BY <1>1, <1>3, <1>4, <1>5, StartDoes
<1>8. \A c \in Checkpoints : StartVal(once, c, r) \in AnyVal
    BY <1>1, <1>2, <1>3, <1>7
<1>9. CASE new = StartBaa(once, p, r)
  <2>1. new.out = once.out
      BY <1>1, <1>4, <1>7, <1>8, <1>9, StartDoes
  <2> QED
      BY <1>7, <2>1
<1> QED
    BY <1>6, <1>7, <1>9

LEMMA RunLeaves ==
    ASSUME TypeInv, NEW p \in Node, NEW new \in TaskSending(Message), NEW lk, Run(p, new, lk)
    PROVE  /\ node'[p].out = new.out /\ node'[p].round = new.round
           /\ \A a \in Node : a # p => node'[a] = node[a]
BY DEF Run, TypeInv, TaskSending

LEMMA JoinOnce ==
    ASSUME TypeInv, OnceInv, NEW p \in Node, Join(p)
    PROVE  OnceInv'
<1> DEFINE nd == node[p]
           new == StartBaa(nd, p, 0)
<1>1. /\ nd \in Task /\ nd \in TaskSending(Message) /\ nd.round = -1 /\ output' = output
      /\ Run(p, new, link)
    BY TaskBetweenSteps DEF Join, TypeInv
<1>2. \A c : StartVal(nd, c, 0) = nd.input[c]
    BY DEF StartVal
<1>3. \A c \in Checkpoints : StartVal(nd, c, 0) \in AnyVal
  <2>1. nd.input \in [Checkpoints -> {0, MaxInput}]
      BY <1>1 DEF Task
  <2>2. 0 \in AnyVal /\ MaxInput \in AnyVal
    <3>1. MaxInput \in Nat
        BY ValuesFinite
    <3> HIDE DEF MaxInput
    <3> QED
        BY <3>1 DEF AnyVal
  <2> QED
      BY <1>2, <2>1, <2>2
<1>4. 0 \in 0 .. Rounds /\ -1 # Rounds + 1 /\ Openings(nd, 0) \subseteq Message
    BY BinAAAssumption DEF Openings
<1>5. new = StartBaa(nd, p, 0)
    OBVIOUS
<1>6. nd.out = 0 /\ p \notin output
  <2>1. nd.out \in 0 .. 1
      BY <1>1 DEF Task
  <2> QED
      BY <1>1, <1>4, <2>1 DEF OnceInv, nd
<1> HIDE DEF nd, new
<1>7. new \in TaskSending(Message) /\ new.out = nd.out
    BY <1>1, <1>3, <1>4, <1>5, StartDoes
<1>8. node'[p].out = 0 /\ \A a \in Node : a # p => node'[a] = node[a]
    BY <1>1, <1>6, <1>7, RunLeaves
<1> QED
    BY <1>1, <1>6, <1>8 DEF OnceInv

LEMMA DeliverOnce ==
    ASSUME TypeInv, OnceInv, NEW p \in Node, NEW q \in Node, Deliver(q, p)
    PROVE  OnceInv'
<1> DEFINE nd == node[p]
           m == Head(link[q][p])
           k == m.round
           lk == [link EXCEPT ![q][p] = Tail(@)]
           new == IF m.kind = "ECHO1" THEN ProcessBaaEcho(nd, p, m, q)
                                      ELSE ProcessBaaEcho2(nd, p, m, q)
<1>1. /\ nd \in Task /\ nd \in TaskSending(Message) /\ output' = output /\ Run(p, new, lk)
      /\ link[q][p] \in Seq(Message) /\ link[q][p] # <<>>
    BY TaskBetweenSteps DEF Deliver, TypeInv
<1>2. m \in Message
    BY <1>1, TailOf
<1>3. k \in 0 .. Rounds /\ nd.round \in Int /\ nd.out \in 0 .. 1
    BY <1>1, <1>2 DEF Message, Task
<1>4. new = IF m.kind = "ECHO1" THEN ProcessBaaEcho(nd, p, m, q)
                                ELSE ProcessBaaEcho2(nd, p, m, q)
    OBVIOUS
<1>5. /\ nd.out # 0 \/ p \in output => nd.round = Rounds + 1
      /\ p \in output => nd.out = 0
    BY DEF OnceInv
<1>6. k = m.round
    OBVIOUS
<1>7. Answers(nd, q, m) \subseteq Message /\ \A h : Openings(h, k + 1) \subseteq Message
    BY DEF Answers, Openings
<1> SUFFICES /\ node'[p].out # 0 \/ p \in output => node'[p].round = Rounds + 1
             /\ p \in output => node'[p].out = 0
             /\ \A a \in Node : a # p => node'[a] = node[a]
    BY <1>1 DEF OnceInv
<1> HIDE DEF nd, m, k, lk, new
<1>8. CASE Passed(nd, m)
  <2>1. new = nd
      BY <1>4, <1>8 DEF ProcessBaaEcho, ProcessBaaEcho2
  <2>2. /\ node'[p].out = nd.out /\ node'[p].round = nd.round
        /\ \A a \in Node : a # p => node'[a] = node[a]
      BY <1>1, <2>1, RunLeaves
  <2> QED
      BY <1>5, <2>2
<1>9. CASE ~Passed(nd, m)
  <2>1. nd.out = 0 /\ p \notin output
      BY <1>3, <1>5, <1>6, <1>9, BinAAAssumption DEF Passed
  <2>2. PICK h \in TaskSending(Message) :
           /\ Hears(nd, h, p, q, m)
           /\ new = h \/ (TerminatedRound(h, m.round) /\ Begun(h, new, p, m.round))
      BY <1>1, <1>2, <1>4, <1>7, <1>9, ProcessDoes
  <2>3. h.out = 0
      BY <2>1, <2>2 DEF Hears, SameTask
  <2>4. new \in TaskSending(Message) /\ (new.out # 0 => new.round = Rounds + 1)
    <3>1. CASE new = h
        BY <2>2, <2>3, <3>1
    <3>2. CASE TerminatedRound(h, k) /\ Begun(h, new, p, k)
      <4>1. new \in TaskSending(Message) /\ Begins(h, new, p, k + 1)
          BY <1>3, <1>7, <2>2, <3>2, BegunDoes
      <4>2. new.round = k + 1
          BY <4>1 DEF Begins
      <4>3. CASE k = Rounds
          BY <4>1, <4>2, <4>3
      <4>4. CASE k # Rounds
        <5>1. new.out = h.out
            BY <1>3, <2>2, <3>2, <4>4, BegunKeepsOut
        <5> QED
            BY <2>3, <4>1, <5>1
      <4> QED
          BY <4>3, <4>4
    <3> QED
        BY <1>6, <2>2, <3>1, <3>2
  <2>5. /\ node'[p].out = new.out /\ node'[p].round = new.round
        /\ \A a \in Node : a # p => node'[a] = node[a]
      BY <1>1, <2>4, RunLeaves
  <2> QED
      BY <2>1, <2>4, <2>5
<1> QED
    BY <1>8, <1>9

LEMMA OnceStep ==
    ASSUME TypeInv, OnceInv, [Next]_vars
    PROVE  OnceInv'
<1>1. ASSUME NEW p \in Node, ForwardResult(p) PROVE OnceInv'
  <2>1. /\ node[p].out = 1 /\ output' = output \union {p}
        /\ node' = [node EXCEPT ![p].out = 0] /\ node[p] \in Task
      BY <1>1 DEF ForwardResult, TypeInv
  <2>2. /\ node'[p].out = 0 /\ node'[p].round = node[p].round
        /\ \A a \in Node : a # p => node'[a] = node[a]
      BY <2>1 DEF TypeInv, Task
  <2>3. node[p].round = Rounds + 1
      BY <2>1 DEF OnceInv
  <2> QED
      BY <2>1, <2>2, <2>3 DEF OnceInv
<1>2. ASSUME NEW p \in Node, Crash(p) PROVE OnceInv'
    BY <1>2 DEF Crash, OnceInv
<1>3. CASE UNCHANGED vars
    BY <1>3 DEF vars, OnceInv
<1> QED
    BY <1>1, <1>2, <1>3, JoinOnce, DeliverOnce DEF Next, Step

\* A node hands a result over once, after the last round: a handler that goes on twice
\* fills consensus_tx and waits rather than send a second result.
THEOREM HandsOverOnce == Spec => []OnceInv
<1>1. Init => OnceInv
    BY DEF Init, Idle, OnceInv
<1>2. IInv /\ OnceInv /\ [Next]_vars => OnceInv'
    BY OnceStep DEF IInv
<1> QED
    BY <1>1, <1>2, Invariant, PTL DEF Spec
=============================================================================
