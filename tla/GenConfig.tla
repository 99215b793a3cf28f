----------------------------- MODULE GenConfig -----------------------------
(***************************************************************************)
(* The configuration generator (tools/genconfig): the keys that pairs of   *)
(* nodes authenticate their messages with, drawn in two nested loops and   *)
(* pushed onto the rows of a matrix, and the parameters it chooses when    *)
(* none are given.  A key is named by the loop indices it was drawn at:    *)
(* SecretKey::generate() draws another one each time.                      *)
(***************************************************************************)
EXTENDS Integers, Sequences, TLAPS

CONSTANT NumNodes

\* There is a node; the theorems say so where they need it.
SomeNode == NumNodes \in Nat \ {0}

VARIABLES
    i, j,        \* the loop variables
    sec_keys     \* sec_keys[r]: the keys pushed onto row r

vars == <<i, j, sec_keys>>

Node == 0 .. NumNodes - 1

Init == i = 0 /\ j = 0 /\ sec_keys = [r \in Node |-> <<>>]

\* One key for i and j, and only once for i itself.
PushKey ==
    /\ i < NumNodes /\ j < NumNodes
    /\ sec_keys' = [r \in Node |-> IF r \in {i, j} THEN Append(sec_keys[r], <<i, j>>)
                                                  ELSE sec_keys[r]]
    /\ j' = j + 1
    /\ UNCHANGED i

\* The inner loop starts at the diagonal.
NextRow ==
    /\ i < NumNodes /\ j = NumNodes
    /\ i' = i + 1 /\ j' = i + 1
    /\ UNCHANGED sec_keys

Next == PushKey \/ NextRow

Spec == Init /\ [][Next]_vars

\* node[a].sk_map: the row by the numbers of the nodes.
SkMap(a) == [b \in Node |-> sec_keys[a][b + 1]]

\* What the generator takes when it is not told.
DefaultFaults == (NumNodes - 1) \div 3
DefaultKappa  == (NumNodes - 1) \div 3 + 1

\* Node::validate refuses twice as many faults as nodes, or more.
Validates(faults) == 2 * faults < NumNodes
-----------------------------------------------------------------------------
(* Properties.                                                             *)

\* The rows while the loops run: how many keys each has and which.
Key(r, k) == IF r <= k THEN <<r, k>> ELSE <<k, r>>

Pushed(r) == IF r < i THEN NumNodes
             ELSE IF r = i THEN j
             ELSE IF r < j THEN i + 1 ELSE i

Rows ==
    /\ i \in 0 .. NumNodes
    /\ j \in i .. NumNodes
    /\ sec_keys \in [Node -> Seq(Node \X Node)]
    /\ \A r \in Node : /\ Len(sec_keys[r]) = Pushed(r)
                       /\ \A k \in 0 .. Pushed(r) - 1 : sec_keys[r][k + 1] = Key(r, k)

\* "MAC Verification failed." (process.rs:42) does not happen between generated nodes:
\* once the files are written a node authenticates what it sends to another with the key
\* that other checks it with, and no third node has that key.
PairsShareKeys ==
    i = NumNodes =>
        /\ \A a, b \in Node : SkMap(a)[b] = SkMap(b)[a]
        /\ \A a, b, c, d \in Node : SkMap(a)[b] = SkMap(c)[d] => {a, b} = {c, d}
-----------------------------------------------------------------------------
\* The rows grow as Rows says.
LEMMA InitRows == ASSUME SomeNode PROVE Init => Rows
<1> SUFFICES ASSUME Init PROVE Rows
    OBVIOUS
<1>1. \A r \in Node : Pushed(r) = 0
    BY DEF Init, Pushed, Node, SomeNode
<1> QED
    BY <1>1 DEF Init, Rows, SomeNode

LEMMA PushKeyRows == ASSUME SomeNode PROVE Rows /\ PushKey => Rows'
<1> SUFFICES ASSUME Rows, PushKey PROVE Rows'
    OBVIOUS
<1>1. /\ i \in Node /\ j \in Node /\ i <= j
      /\ i' = i /\ j' = j + 1 /\ sec_keys \in [Node -> Seq(Node \X Node)]
    BY DEF Rows, PushKey, Node, SomeNode
<1>2. sec_keys' \in [Node -> Seq(Node \X Node)]
    BY <1>1 DEF PushKey
<1>3. ASSUME NEW r \in Node
      PROVE  /\ Len(sec_keys'[r]) = Pushed(r)'
             /\ \A k \in 0 .. Pushed(r)' - 1 : sec_keys'[r][k + 1] = Key(r, k)
  <2> DEFINE row == sec_keys[r]
  <2>1. /\ row \in Seq(Node \X Node) /\ Len(row) = Pushed(r)
        /\ \A k \in 0 .. Pushed(r) - 1 : row[k + 1] = Key(r, k)
    BY <1>1 DEF Rows
  <2>2. CASE r \in {i, j}
    <3>1. sec_keys'[r] = Append(row, <<i, j>>)
        BY <2>2 DEF PushKey
    <3>2. Pushed(r)' = Pushed(r) + 1 /\ Pushed(r) \in Nat
        BY <1>1, <2>2 DEF Pushed, Node, SomeNode
    <3>3. Key(r, Pushed(r)) = <<i, j>>
        BY <1>1, <2>2 DEF Pushed, Key, Node, SomeNode
    <3> DEFINE n == Pushed(r)
    <3>4. Len(sec_keys'[r]) = n + 1
        BY <1>1, <2>1, <3>1
    <3>5. \A k \in 0 .. n : sec_keys'[r][k + 1] = IF k = n THEN <<i, j>> ELSE row[k + 1]
      <4> HIDE DEF row, n
      <4> QED
        BY <1>1, <2>1, <3>1, <3>2 DEF n
    <3> HIDE DEF row, n
    <3>6. \A k \in 0 .. n : sec_keys'[r][k + 1] = Key(r, k)
        BY <2>1, <3>2, <3>3, <3>5 DEF n
    <3> QED
        BY <3>2, <3>4, <3>6 DEF n
  <2>3. CASE r \notin {i, j}
    <3>1. sec_keys'[r] = row
        BY <2>3 DEF PushKey
    <3>2. Pushed(r)' = Pushed(r)
        BY <1>1, <2>3 DEF Pushed, Node, SomeNode
    <3> QED
        BY <2>1, <3>1, <3>2
  <2> QED
    BY <2>2, <2>3
<1> QED
    BY <1>1, <1>2, <1>3 DEF Rows, Node, SomeNode

LEMMA NextRowRows == ASSUME SomeNode PROVE Rows /\ NextRow => Rows'
<1> SUFFICES ASSUME Rows, NextRow PROVE Rows'
    OBVIOUS
<1>1. /\ i \in Node /\ j = NumNodes /\ i' = i + 1 /\ j' = i + 1
      /\ UNCHANGED sec_keys
    BY DEF Rows, NextRow, Node, SomeNode
<1>2. \A r \in Node : Pushed(r)' = Pushed(r)
    BY <1>1 DEF Pushed, Node, SomeNode
<1> QED
    BY <1>1, <1>2 DEF Rows, Node, SomeNode

\* Any two generated nodes share a key that is theirs alone, whatever their number.
THEOREM PairsShareKeysHolds ==
    ASSUME SomeNode PROVE Spec => []PairsShareKeys
<1>1. ASSUME Rows, [Next]_vars PROVE Rows'
    BY <1>1, PushKeyRows, NextRowRows DEF Next, vars, Rows, Pushed
<1>2. Rows => PairsShareKeys
  <2> SUFFICES ASSUME Rows, i = NumNodes PROVE PairsShareKeys
    BY DEF PairsShareKeys
  <2>1. ASSUME NEW a \in Node, NEW b \in Node PROVE SkMap(a)[b] = Key(a, b)
    <3>1. Pushed(a) = NumNodes /\ b \in 0 .. NumNodes - 1
        BY DEF Pushed, Node, SomeNode
    <3>2. sec_keys[a][b + 1] = Key(a, b)
        BY <3>1 DEF Rows
    <3> QED
        BY <3>2 DEF SkMap
  <2>2. \A a, b \in Node : Key(a, b) = Key(b, a)
    BY DEF Key, Node, SomeNode
  <2>3. \A a, b, c, d \in Node : Key(a, b) = Key(c, d) => {a, b} = {c, d}
    BY DEF Key
  <2> QED
    BY <2>1, <2>2, <2>3 DEF PairsShareKeys
<1> QED
    BY <1>1, <1>2, InitRows, PTL DEF Spec

\* What the generator chooses by itself suits the modules: it validates, AACS and LADKG
\* accept it, n - f nodes suffice for a certificate of 2f + 1 signatures, and one of the
\* kappa leaders is not faulty.  What Node::validate admits does not: three nodes with one
\* fault validate, and need all of them for a certificate.
THEOREM DefaultsFit ==
    ASSUME SomeNode
    PROVE
    /\ Validates(DefaultFaults) /\ DefaultFaults \in Nat
    /\ DefaultFaults < NumNodes /\ DefaultKappa \in 1 .. NumNodes
    /\ 2 * DefaultFaults + 1 <= NumNodes - DefaultFaults
    /\ DefaultFaults < DefaultKappa
    /\ NumNodes = 3 => Validates(1) /\ 2 * 1 + 1 > NumNodes - 1
    BY DEF Validates, DefaultFaults, DefaultKappa, SomeNode
=============================================================================
