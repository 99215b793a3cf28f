------------------------------ MODULE FirstFew ------------------------------
(***************************************************************************)
(* The first few elements of a finite set under a strict order without     *)
(* ties: as many as one asks for, as long as there are so many.  The key   *)
(* generation takes the first f + 1 transcripts in its sort order.  Least  *)
(* elements give induction as well, for a set of naturals.                 *)
(***************************************************************************)
EXTENDS Integers, FiniteSets, FiniteSetTheorems, FunctionTheorems, TLAPS

\* Every non-empty set of naturals has a least element: or else one more than a lower
\* bound is a lower bound, but zero is one more than none.
LEMMA LeastNatural ==
    ASSUME NEW T, T \subseteq Nat, T # {}
    PROVE  \E n \in T : \A m \in T : n <= m
<1> DEFINE below(t) == {u \in 0 .. t : \A m \in T : u <= m}
<1>1. PICK t \in T : TRUE
    OBVIOUS
<1>2. SUFFICES ASSUME \A n \in T : \E m \in T : m < n PROVE FALSE
    OBVIOUS
<1> DEFINE U == below(t)
           f == [u \in U |-> u + 1]
<1>3. ASSUME NEW u \in U PROVE u + 1 \in U
    <2>1. u \in Nat /\ \A m \in T : u <= m
        BY <1>1
    <2>2. \A m \in T : u < m
        BY <1>2, <2>1
    <2> QED
        BY <1>1, <2>1, <2>2
<1>4. IsFiniteSet(U) /\ 0 \in U /\ U \subseteq Nat
    <2>1. t \in Int /\ IsFiniteSet(0 .. t)
        BY <1>1, FS_Interval
    <2> QED
        BY <1>1, <2>1, FS_Subset
<1> HIDE DEF U
<1>5. f \in Injection(U, U)
    <2>1. f \in [U -> U]
        BY <1>3
    <2>2. \A u \in U, v \in U : f[u] = f[v] => u = v
        BY <1>4
    <2> QED
        BY <2>1, <2>2 DEF Injection, IsInjective
<1>6. f \in Surjection(U, U)
    BY <1>4, <1>5, FS_Injection
<1>7. PICK u \in U : f[u] = 0
    BY <1>4, <1>6 DEF Surjection
<1> QED
    BY <1>4, <1>7

\* Induction over the naturals up to N, for a set.
LEMMA UpTo ==
    ASSUME NEW N \in Nat, NEW T, 0 \in T, \A n \in 0 .. N - 1 : n \in T => n + 1 \in T
    PROVE  \A n \in 0 .. N : n \in T
<1> DEFINE bad == {n \in 0 .. N : n \notin T}
<1>1. SUFFICES ASSUME bad # {} PROVE FALSE
    OBVIOUS
<1>2. PICK k \in bad : \A j \in bad : k <= j
    <2>1. bad \subseteq Nat
        OBVIOUS
    <2> HIDE DEF bad
    <2> QED
        BY <1>1, <2>1, LeastNatural
<1>3. k # 0 /\ k \in 0 .. N /\ k \notin T
    BY <1>2
<1>4. k - 1 \in 0 .. N - 1 /\ k - 1 \notin bad
    BY <1>2, <1>3
<1> QED
    BY <1>3, <1>4

\* Induction over all naturals, for a set.
LEMMA Induct ==
    ASSUME NEW T, 0 \in T, \A n \in Nat : n \in T => n + 1 \in T
    PROVE  \A n \in Nat : n \in T
<1> SUFFICES ASSUME NEW n \in Nat PROVE n \in T
    OBVIOUS
<1>1. \A m \in 0 .. n : m \in T
    BY UpTo
<1> QED
    BY <1>1

-----------------------------------------------------------------------------
(* Recursive functions *)

\* f is what a recursion from v, whose step makes the n-th value the one after it, finds up to N.
Follows(f, N, S, v, step) ==
    /\ f \in [0 .. N -> S] /\ f[0] = v
    /\ \A n \in 0 .. N - 1 : f[n + 1] = step[n][f[n]]

\* Two runs of one recursion agree as far as both go.
LEMMA FollowsOnce ==
    ASSUME NEW S, NEW v \in S, NEW step \in [Nat -> [S -> S]], NEW N \in Nat, NEW M \in Nat, N <= M,
           NEW f, Follows(f, N, S, v, step), NEW g, Follows(g, M, S, v, step)
    PROVE  \A n \in 0 .. N : f[n] = g[n]
<1> DEFINE T == {n \in 0 .. N : f[n] = g[n]}
<1>1. 0 \in T
    BY DEF Follows
<1>2. ASSUME NEW n \in 0 .. N - 1, n \in T PROVE n + 1 \in T
    BY <1>2 DEF Follows
<1> HIDE DEF T
<1>3. \A n \in 0 .. N : n \in T
    BY <1>1, <1>2, UpTo
<1> QED
    BY <1>3 DEF T

\* There is a run as far as one likes.
LEMMA SomeFollows ==
    ASSUME NEW S, NEW v \in S, NEW step \in [Nat -> [S -> S]], NEW N \in Nat
    PROVE  \E f : Follows(f, N, S, v, step)
<1> DEFINE T == {n \in Nat : \E f : Follows(f, n, S, v, step)}
<1>1. 0 \in T
  <2>1. Follows([i \in 0 .. 0 |-> v], 0, S, v, step)
      BY DEF Follows
  <2> QED
      BY <2>1
<1>2. ASSUME NEW n \in Nat, n \in T PROVE n + 1 \in T
  <2>1. PICK f : Follows(f, n, S, v, step)
      BY <1>2
  <2> DEFINE g == [i \in 0 .. n + 1 |-> IF i = n + 1 THEN step[n][f[n]] ELSE f[i]]
  <2>2. f \in [0 .. n -> S] /\ f[0] = v /\ \A m \in 0 .. n - 1 : f[m + 1] = step[m][f[m]]
      BY <2>1 DEF Follows
  <2>3. g \in [0 .. n + 1 -> S] /\ g[0] = v
      BY <2>2
  <2>4. ASSUME NEW m \in 0 .. (n + 1) - 1 PROVE g[m + 1] = step[m][g[m]]
      BY <2>2
  <2>5. Follows(g, n + 1, S, v, step)
      BY <2>3, <2>4 DEF Follows
  <2> QED
      BY <2>5
<1> HIDE DEF T
<1>3. N \in T
    BY <1>1, <1>2, Induct
<1> QED
    BY <1>3 DEF T

\* The same without an end
Recurs(f, S, v, step) == f \in [Nat -> S] /\ f[0] = v /\ \A n \in Nat : f[n + 1] = step[n][f[n]]

\* A recursion over the naturals has a value at each.
LEMMA Recursion ==
    ASSUME NEW S, NEW v \in S, NEW step \in [Nat -> [S -> S]]
    PROVE  \E f : Recurs(f, S, v, step)
<1> DEFINE g(n) == CHOOSE f : Follows(f, n, S, v, step)
           h == [n \in Nat |-> g(n)[n]]
<1>1. ASSUME NEW n \in Nat PROVE Follows(g(n), n, S, v, step)
    BY SomeFollows
<1> HIDE DEF g
<1>2. ASSUME NEW n \in Nat PROVE g(n)[n] \in S /\ g(0)[0] = v /\ g(n + 1)[n + 1] = step[n][g(n)[n]]
  <2>1. Follows(g(n), n, S, v, step) /\ Follows(g(n + 1), n + 1, S, v, step) /\ Follows(g(0), 0, S, v, step)
      BY <1>1
  <2>2. g(n)[n] = g(n + 1)[n]
      BY <2>1, FollowsOnce
  <2> QED
      BY <2>1, <2>2 DEF Follows
<1>3. h \in [Nat -> S] /\ h[0] = v /\ \A n \in Nat : h[n + 1] = step[n][h[n]]
    BY <1>2
<1>4. Recurs(h, S, v, step)
    BY <1>3 DEF Recurs
<1> QED
    BY <1>4

\* A recursive function over 0 .. N, the first step of which is from v
Runs(f, N, S, v, step) ==
    f \in [0 .. N -> S] /\ f = [n \in 0 .. N |-> IF n = 0 THEN v ELSE step[n][f[n - 1]]]

\* There is one.
LEMMA SomeRun ==
    ASSUME NEW S, NEW v \in S, NEW step \in [Nat -> [S -> S]], NEW N \in Nat
    PROVE  \E f : Runs(f, N, S, v, step)
<1> DEFINE next == [n \in Nat |-> step[n + 1]]
<1>1. next \in [Nat -> [S -> S]]
    OBVIOUS
<1>2. PICK g : Follows(g, N, S, v, next)
    BY <1>1, SomeFollows
<1>3. g \in [0 .. N -> S]
    BY <1>2 DEF Follows
<1>4. ASSUME NEW n \in 0 .. N PROVE g[n] = IF n = 0 THEN v ELSE step[n][g[n - 1]]
  <2>1. CASE n = 0
      BY <1>2, <2>1 DEF Follows
  <2>2. CASE n # 0
    <3>1. n - 1 \in 0 .. N - 1 /\ n - 1 \in Nat /\ (n - 1) + 1 = n
        BY <2>2
    <3>2. g[n] = next[n - 1][g[n - 1]]
        BY <1>2, <3>1 DEF Follows
    <3> QED
        BY <2>2, <3>1, <3>2
  <2> QED
      BY <2>1, <2>2
<1>5. Runs(g, N, S, v, step)
    BY <1>3, <1>4 DEF Runs
<1> QED
    BY <1>5

-----------------------------------------------------------------------------
(* The first few *)

\* The relation R orders S strictly, without ties.
Orders(R, S) ==
    /\ \A a \in S : <<a, a>> \notin R
    /\ \A a \in S, b \in S, c \in S : <<a, b>> \in R /\ <<b, c>> \in R => <<a, c>> \in R
    /\ \A a \in S, b \in S : a # b => <<a, b>> \in R \/ <<b, a>> \in R

Before(R, S, d) == {e \in S : <<e, d>> \in R}
FirstOf(R, S, k) == {d \in S : Cardinality(Before(R, S, d)) < k}

\* What comes before an element is finite, and less comes before what is before it.
LEMMA BeforeGrows ==
    ASSUME NEW S, IsFiniteSet(S), NEW R, Orders(R, S), NEW a \in S, NEW b \in S
    PROVE  /\ IsFiniteSet(Before(R, S, a)) /\ Cardinality(Before(R, S, a)) \in Nat
           /\ <<a, b>> \in R =>
                 Cardinality(Before(R, S, a)) < Cardinality(Before(R, S, b))
<1>1. \A d \in S : /\ IsFiniteSet(Before(R, S, d))
                   /\ Cardinality(Before(R, S, d)) \in Nat
    BY FS_Subset, FS_CardinalityType DEF Before
<1>2. ASSUME <<a, b>> \in R
      PROVE  Cardinality(Before(R, S, a)) < Cardinality(Before(R, S, b))
    <2>1. Before(R, S, a) \union {a} \subseteq Before(R, S, b) /\ a \notin Before(R, S, a)
        BY <1>2 DEF Before, Orders
    <2>2. Cardinality(Before(R, S, a) \union {a}) = Cardinality(Before(R, S, a)) + 1
        BY <1>1, <2>1, FS_AddElement
    <2>3. Cardinality(Before(R, S, a) \union {a}) <= Cardinality(Before(R, S, b))
        BY <1>1, <2>1, FS_Subset
    <2> QED
        BY <1>1, <2>2, <2>3
<1> QED
    BY <1>1, <1>2

\* The first k + 1 elements are the first k and one more, as long as there are more.
LEMMA OneMore ==
    ASSUME NEW S, IsFiniteSet(S), NEW R, Orders(R, S),
           NEW k \in Nat, k < Cardinality(S), Cardinality(FirstOf(R, S, k)) = k
    PROVE  Cardinality(FirstOf(R, S, k + 1)) = k + 1
<1> DEFINE first == FirstOf(R, S, k)
           rest  == S \ first
           nums  == {Cardinality(Before(R, S, d)) : d \in rest}
<1>1. IsFiniteSet(first) /\ first \subseteq S
    BY FS_Subset DEF FirstOf
<1>2. rest # {}
    BY <1>1
<1>3. nums \subseteq Nat /\ nums # {}
    <2>1. \A d \in rest : Cardinality(Before(R, S, d)) \in Nat
        BY BeforeGrows
    <2> QED
        BY <1>2, <2>1
<1>4. PICK m \in rest : \A d \in rest :
           Cardinality(Before(R, S, m)) <= Cardinality(Before(R, S, d))
    <2>1. PICK n \in nums : \A i \in nums : n <= i
        <3> HIDE DEF nums
        <3> QED
            BY <1>3, LeastNatural
    <2>2. PICK m \in rest : n = Cardinality(Before(R, S, m))
        OBVIOUS
    <2> QED
        BY <2>1, <2>2
<1>5. Before(R, S, m) = first
    <2>1. ASSUME NEW e \in Before(R, S, m) PROVE e \in first
        <3>1. e \in S /\ Cardinality(Before(R, S, e)) < Cardinality(Before(R, S, m))
            BY <2>1, BeforeGrows DEF Before
        <3>2. /\ Cardinality(Before(R, S, e)) \in Nat
              /\ Cardinality(Before(R, S, m)) \in Nat
            BY <3>1, BeforeGrows
        <3> QED
            BY <1>4, <3>1, <3>2
    <2>2. ASSUME NEW e \in first PROVE e \in Before(R, S, m)
        <3>1. /\ Cardinality(Before(R, S, e)) < k /\ e \in S
              /\ ~ (Cardinality(Before(R, S, m)) < k)
              /\ Cardinality(Before(R, S, e)) \in Nat
              /\ Cardinality(Before(R, S, m)) \in Nat
            BY <1>1, BeforeGrows DEF FirstOf
        <3>2. e # m /\ <<m, e>> \notin R
            BY <3>1, BeforeGrows
        <3> QED
            BY <3>1, <3>2 DEF Orders, Before
    <2> QED
        BY <2>1, <2>2
<1>6. FirstOf(R, S, k + 1) = first \union {m}
    <2>1. ASSUME NEW d \in S, d # m, d \notin first
          PROVE  Cardinality(Before(R, S, d)) > k
        <3>1. <<d, m>> \notin R
            BY <1>5, <2>1 DEF Before
        <3>2. <<m, d>> \in R
            BY <2>1, <3>1 DEF Orders
        <3>3. Cardinality(Before(R, S, m)) < Cardinality(Before(R, S, d))
            BY <3>2, BeforeGrows
        <3> QED
            BY <1>5, <3>3
    <2>2. \A d \in S : Cardinality(Before(R, S, d)) \in Nat
        BY BeforeGrows
    <2>3. Cardinality(Before(R, S, m)) = k
        BY <1>5
    <2> QED
        BY <2>1, <2>2, <2>3 DEF FirstOf
<1>7. Cardinality(first \union {m}) = k + 1
    BY <1>1, FS_AddElement
<1> QED
    BY <1>6, <1>7

\* As many elements come first as one asks for, and are there.
LEMMA FirstFew ==
    ASSUME NEW S, IsFiniteSet(S), NEW R, Orders(R, S), NEW n \in Nat, n <= Cardinality(S)
    PROVE  Cardinality(FirstOf(R, S, n)) = n
<1> DEFINE bad == {k \in 0 .. n : Cardinality(FirstOf(R, S, k)) # k}
<1>1. SUFFICES ASSUME bad # {} PROVE FALSE
    OBVIOUS
<1>2. PICK k \in bad : \A j \in bad : k <= j
    <2>1. bad \subseteq Nat
        OBVIOUS
    <2> HIDE DEF bad
    <2> QED
        BY <1>1, <2>1, LeastNatural
<1>3. k # 0
    <2>1. FirstOf(R, S, 0) = {}
        <3>1. \A d \in S : Cardinality(Before(R, S, d)) \in Nat
            BY BeforeGrows
        <3>2. \A d \in S : ~(Cardinality(Before(R, S, d)) < 0)
            BY <3>1
        <3> QED
            BY <3>2 DEF FirstOf
    <2> QED
        BY <2>1, FS_EmptySet
<1>4. k - 1 \in 0 .. n /\ k - 1 \notin bad
    BY <1>2, <1>3
<1>5. Cardinality(FirstOf(R, S, k - 1)) = k - 1 /\ k - 1 < Cardinality(S)
    BY <1>4, FS_CardinalityType
<1>6. Cardinality(FirstOf(R, S, (k - 1) + 1)) = (k - 1) + 1
    BY <1>4, <1>5, OneMore
<1> QED
    BY <1>6
=============================================================================
