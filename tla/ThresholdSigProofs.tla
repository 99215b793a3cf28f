------------------------- MODULE ThresholdSigProofs -------------------------
(***************************************************************************)
(* Polynomials, threshold signatures, sharings and commitments, for every  *)
(* field, every number of shares and every threshold.                      *)
(*                                                                         *)
(* First what the operators of Polynomial compute, for every prime and     *)
(* every polynomial: that the field is one, that eval, interpolate,        *)
(* interpolate_at and lagrange_coefficients agree with sums of terms,      *)
(* that sample finds the polynomials that share a key and no other, and    *)
(* that div divides. Scalars are handled as the integers they are          *)
(* congruent to. A recursive function is one that CHOOSE finds, so that    *)
(* each is shown to exist first and followed by induction over its domain  *)
(* then.                                                                   *)
(*                                                                         *)
(* Then that whatever is offered to a SignatureSet in whatever order, no   *)
(* holder is counted twice and what it combines verifies; that shares      *)
(* below the threshold tell nothing; and that the commitments open to      *)
(* what was committed and to nothing else.                                 *)
(***************************************************************************)
EXTENDS ThresholdSig, FirstFew

-----------------------------------------------------------------------------
(* The field of Prime elements *)

\* Integers that differ by a multiple of Prime
Congruent(a, b) == \E k \in Int : a - b = k * Prime

\* Prime is one.
LEMMA PrimeIs == Prime \in Nat /\ Prime >= 2 /\ \A a \in 2 .. Prime - 1 : Prime % a # 0
    BY PolynomialAssumption

\* Division with a remainder, as the library leaves it to the provers
LEMMA Division ==
    ASSUME NEW a \in Int, NEW n \in Nat \ {0}
    PROVE  /\ a \div n \in Int /\ a % n \in 0 .. n - 1
           /\ a = n * (a \div n) + (a % n)
    OBVIOUS

\* There is only one quotient and one remainder.
LEMMA RemainderIs ==
    ASSUME NEW n \in Nat \ {0}, NEW q \in Int, NEW r \in 0 .. n - 1
    PROVE  (q * n + r) % n = r
<1> DEFINE a == q * n + r
<1>1. a \in Int /\ a \div n \in Int /\ a % n \in 0 .. n - 1 /\ a = n * (a \div n) + (a % n)
    BY Division
<1> DEFINE t == a \div n
           s == a % n
<1>2. /\ t \in Int /\ s \in 0 .. n - 1 /\ q * n + r = n * t + s
    BY <1>1
<1> HIDE DEF a, t, s
<1> DEFINE d == q - t
<1>3. d \in Int /\ d * n = s - r
    BY <1>2
<1> HIDE DEF d
<1>4. d = 0
  <2>1. ASSUME d >= 1 PROVE FALSE
    <3>1. d * n >= n
        BY <1>3, <2>1
    <3> QED
        BY <1>2, <1>3, <3>1
  <2>2. ASSUME d <= -1 PROVE FALSE
    <3>1. d * n <= -n
        BY <1>3, <2>2
    <3> QED
        BY <1>2, <1>3, <3>1
  <2> QED
      BY <1>3, <2>1, <2>2
<1>5. s = r
    BY <1>2, <1>3, <1>4
<1> QED
    BY <1>5 DEF s, a

\* Scalars stand for the integers that differ from them by a multiple of Prime.
LEMMA ModIs ==
    ASSUME NEW a \in Int
    PROVE  a % Prime \in Scalars /\ Congruent(a, a % Prime)
<1>1. Prime \in Nat \ {0}
    BY PrimeIs
<1>2. a \div Prime \in Int /\ a % Prime \in 0 .. Prime - 1
      /\ a = Prime * (a \div Prime) + (a % Prime)
    BY <1>1, Division
<1> DEFINE k == a \div Prime
           r == a % Prime
<1>3. k \in Int /\ r \in 0 .. Prime - 1 /\ a = Prime * k + r
    BY <1>2
<1> HIDE DEF k, r
<1>4. a - r = k * Prime
    BY <1>1, <1>3
<1> QED
    BY <1>3, <1>4 DEF Congruent, r, Scalars

\* The remainder is the one scalar the integer is congruent to.
LEMMA CongruentIs ==
    ASSUME NEW a \in Int, NEW r \in Scalars, Congruent(a, r)
    PROVE  a % Prime = r
<1>1. Prime \in Nat \ {0} /\ r \in 0 .. Prime - 1
    BY PrimeIs DEF Scalars
<1>2. PICK k \in Int : a - r = k * Prime
    BY DEF Congruent
<1>3. (k * Prime + r) % Prime = r
    BY <1>1, RemainderIs
<1>4. a = k * Prime + r
    BY <1>1, <1>2
<1> QED
    BY <1>3, <1>4

\* Congruence is reflexive,
LEMMA CongruentSelf == ASSUME NEW a \in Int PROVE Congruent(a, a)
<1>1. a - a = 0 * Prime
    BY PrimeIs
<1> QED
    BY <1>1 DEF Congruent

\* symmetric,
LEMMA CongruentSym ==
    ASSUME NEW a \in Int, NEW b \in Int, Congruent(a, b) PROVE Congruent(b, a)
<1>1. PICK k \in Int : a - b = k * Prime
    BY DEF Congruent
<1>2. b - a = (-k) * Prime /\ -k \in Int
    BY <1>1, PrimeIs
<1> QED
    BY <1>2 DEF Congruent

\* and transitive.
LEMMA CongruentTrans ==
    ASSUME NEW a \in Int, NEW b \in Int, NEW c \in Int, Congruent(a, b), Congruent(b, c)
    PROVE  Congruent(a, c)
<1>1. PICK k \in Int : a - b = k * Prime
    BY DEF Congruent
<1>2. PICK l \in Int : b - c = l * Prime
    BY DEF Congruent
<1>3. a - c = (k + l) * Prime /\ k + l \in Int
    BY <1>1, <1>2, PrimeIs
<1> QED
    BY <1>3 DEF Congruent

\* Sums and differences of congruent integers are congruent,
LEMMA CongruentSum ==
    ASSUME NEW a \in Int, NEW b \in Int, NEW c \in Int, NEW d \in Int,
           Congruent(a, b), Congruent(c, d)
    PROVE  Congruent(a + c, b + d) /\ Congruent(a - c, b - d)
<1>1. PICK k \in Int : a - b = k * Prime
    BY DEF Congruent
<1>2. PICK l \in Int : c - d = l * Prime
    BY DEF Congruent
<1>3. /\ (a + c) - (b + d) = (k + l) * Prime /\ k + l \in Int
      /\ (a - c) - (b - d) = (k - l) * Prime /\ k - l \in Int
    BY <1>1, <1>2, PrimeIs
<1> QED
    BY <1>3 DEF Congruent

\* and so are products.
LEMMA CongruentProduct ==
    ASSUME NEW a \in Int, NEW b \in Int, NEW c \in Int, NEW d \in Int,
           Congruent(a, b), Congruent(c, d)
    PROVE  Congruent(a * c, b * d)
<1>1. PICK k \in Int : a - b = k * Prime
    BY DEF Congruent
<1>2. PICK l \in Int : c - d = l * Prime
    BY DEF Congruent
<1>3. a = k * Prime + b /\ c = l * Prime + d /\ Prime \in Int
    BY <1>1, <1>2, PrimeIs
<1>4. a * c - b * d = (k * c + b * l) * Prime
  <2>1. a * c = k * Prime * c + b * c
      BY <1>3
  <2>2. b * c = b * (l * Prime) + b * d
      BY <1>3
  <2>3. k * Prime * c = (k * c) * Prime /\ b * (l * Prime) = (b * l) * Prime
      BY <1>3
  <2>4. k * c \in Int /\ b * l \in Int /\ b * d \in Int
      OBVIOUS
  <2> QED
      BY <1>3, <2>1, <2>2, <2>3, <2>4
<1>5. k * c + b * l \in Int
    OBVIOUS
<1> QED
    BY <1>4, <1>5 DEF Congruent

\* Remainders are the same when the integers are congruent.
LEMMA SameRemainder ==
    ASSUME NEW a \in Int, NEW b \in Int
    PROVE  a % Prime = b % Prime <=> Congruent(a, b)
<1>1. a % Prime \in Scalars /\ Congruent(a, a % Prime)
    BY ModIs
<1>2. b % Prime \in Scalars /\ Congruent(b, b % Prime)
    BY ModIs
<1>3. Scalars \subseteq Int
    BY PrimeIs DEF Scalars
<1> DEFINE r == a % Prime
           s == b % Prime
<1>4. r \in Scalars /\ Congruent(a, r) /\ s \in Scalars /\ Congruent(b, s)
    BY <1>1, <1>2
<1> HIDE DEF r, s
<1>5. ASSUME r = s PROVE Congruent(a, b)
  <2>1. Congruent(s, b)
      BY <1>3, <1>4, CongruentSym
  <2> QED
      BY <1>3, <1>4, <1>5, <2>1, CongruentTrans
<1>6. ASSUME Congruent(a, b) PROVE a % Prime = s
  <2>1. Congruent(a, s)
      BY <1>3, <1>4, <1>6, CongruentTrans
  <2> QED
      BY <1>4, <2>1, CongruentIs
<1> QED
    BY <1>5, <1>6 DEF r, s

\* Scalars are integers, nought and one among them.
LEMMA ScalarsAre == Scalars \subseteq Int /\ 0 \in Scalars /\ 1 \in Scalars
    BY PrimeIs DEF Scalars

\* The operations of the field, and what they stand for.
LEMMA OperationsAre ==
    ASSUME NEW a \in Int, NEW b \in Int
    PROVE  /\ Plus(a, b) \in Scalars /\ Congruent(Plus(a, b), a + b)
           /\ Minus(a, b) \in Scalars /\ Congruent(Minus(a, b), a - b)
           /\ Times(a, b) \in Scalars /\ Congruent(Times(a, b), a * b)
<1>1. ASSUME NEW c \in Int PROVE c % Prime \in Scalars /\ Congruent(c % Prime, c)
    BY ModIs, CongruentSym, ScalarsAre
<1>2. a + b \in Int /\ a - b \in Int /\ a * b \in Int
    OBVIOUS
<1> QED
    BY <1>1, <1>2 DEF Plus, Minus, Times

\* Different scalars are not congruent.
LEMMA ScalarsDiffer ==
    ASSUME NEW a \in Scalars, NEW b \in Scalars, Congruent(a, b)
    PROVE  a = b
<1>1. a % Prime = b
    BY CongruentIs, ScalarsAre
<1>2. Congruent(a, a)
    BY CongruentSelf, ScalarsAre
<1>3. a % Prime = a
    BY <1>2, CongruentIs, ScalarsAre
<1> QED
    BY <1>1, <1>3

\* Scalars that stand for a and b are equal just if those differ by a multiple of Prime.
LEMMA SameScalar ==
    ASSUME NEW r \in Scalars, NEW s \in Scalars, NEW a \in Int, NEW b \in Int,
           Congruent(r, a), Congruent(s, b)
    PROVE  r = s <=> Congruent(a, b)
<1>1. r \in Int /\ s \in Int /\ Congruent(a, r) /\ Congruent(b, s)
    BY ScalarsAre, CongruentSym
<1>2. ASSUME r = s PROVE Congruent(a, b)
    BY <1>1, <1>2, CongruentTrans
<1>3. ASSUME Congruent(a, b) PROVE r = s
  <2>1. Congruent(r, b)
      BY <1>1, <1>3, CongruentTrans
  <2>2. Congruent(r, s)
      BY <1>1, <2>1, CongruentTrans
  <2> QED
      BY <2>2, ScalarsDiffer
<1> QED
    BY <1>2, <1>3

\* Euclid: a prime that divides a product divides a factor. The least multiplier that
\* takes b to a multiple of Prime divides every other, Prime among them.
LEMMA Euclid ==
    ASSUME NEW a \in Int, NEW b \in Int, Congruent(a * b, 0)
    PROVE  Congruent(a, 0) \/ Congruent(b, 0)
<1> SUFFICES ASSUME ~Congruent(b, 0) PROVE Congruent(a, 0)
    OBVIOUS
<1> DEFINE T == {m \in Nat \ {0} : Congruent(m * b, 0)}
<1>1. Prime \in T
  <2>1. Prime * b - 0 = b * Prime
      BY PrimeIs
  <2> QED
      BY <2>1, PrimeIs DEF Congruent
<1>2. PICK n \in T : \A m \in T : n <= m
    BY <1>1, LeastNatural
<1>3. n \in Nat \ {0} /\ Congruent(n * b, 0) /\ \A m \in Nat \ {0} : Congruent(m * b, 0) => n <= m
    BY <1>2
<1>10. Congruent(Prime * b, 0) /\ n <= Prime
    BY <1>1, <1>2
<1> HIDE DEF T
<1>4. ASSUME NEW x \in Int, Congruent(x * b, 0) PROVE x % n = 0
  <2> DEFINE q == x \div n
             r == x % n
  <2>1. q \in Int /\ r \in 0 .. n - 1 /\ x = n * q + r
      BY <1>3, Division
  <2> HIDE DEF q, r
  <2>2. Congruent(r * b, 0)
    <3>1. PICK k \in Int : x * b - 0 = k * Prime
        BY <1>4 DEF Congruent
    <3>2. PICK l \in Int : n * b - 0 = l * Prime
        BY <1>3 DEF Congruent
    <3>3. r * b = x * b - q * (n * b)
      <4>1. x * b = (n * q) * b + r * b
          BY <1>3, <2>1
      <4>2. (n * q) * b = q * (n * b)
          BY <1>3, <2>1
      <4> QED
          BY <1>3, <2>1, <4>1, <4>2
    <3>4. r * b - 0 = (k - q * l) * Prime
      <4>1. r * b = k * Prime - q * (l * Prime)
          BY <1>3, <2>1, <3>1, <3>2, <3>3
      <4>2. q * (l * Prime) = (q * l) * Prime
          BY <2>1, PrimeIs
      <4> QED
          BY <2>1, <4>1, <4>2, PrimeIs
    <3>5. k - q * l \in Int
        BY <2>1
    <3> QED
        BY <3>4, <3>5 DEF Congruent
  <2>3. r \in Nat /\ r < n
      BY <1>3, <2>1
  <2>4. r = 0
      BY <1>3, <2>2, <2>3
  <2> QED
      BY <2>4 DEF r
<1>5. Prime % n = 0 /\ n <= Prime
    BY <1>10, <1>4, PrimeIs
<1>6. n # 1
  <2>1. 1 * b = b
      OBVIOUS
  <2> QED
      BY <1>3, <2>1
<1>7. n = Prime
    BY <1>3, <1>5, <1>6, PrimeIs
<1>8. a % Prime = 0
    BY <1>4, <1>7
<1>9. Congruent(a, a % Prime)
    BY ModIs
<1> QED
    BY <1>8, <1>9

\* No two scalars have the same product with a third, unless it is zero.
LEMMA TimesCancels ==
    ASSUME NEW a \in Scalars \ {0}, NEW b \in Int, NEW c \in Int, Congruent(a * b, a * c)
    PROVE  Congruent(b, c)
<1>1. a \in Int /\ ~Congruent(a, 0)
    BY ScalarsAre, ScalarsDiffer
<1>2. PICK k \in Int : a * b - a * c = k * Prime
    BY DEF Congruent
<1>3. (b - c) * a - 0 = k * Prime
    BY <1>1, <1>2
<1>4. Congruent((b - c) * a, 0)
    BY <1>3 DEF Congruent
<1>5. Congruent(b - c, 0)
    BY <1>1, <1>4, Euclid
<1>6. PICK l \in Int : (b - c) - 0 = l * Prime
    BY <1>5 DEF Congruent
<1>7. b - c = l * Prime
    BY <1>6
<1> QED
    BY <1>7 DEF Congruent

\* Every scalar but zero has an inverse: its products with the scalars are all different,
\* so that one of them is one.
LEMMA InverseIs ==
    ASSUME NEW a \in Scalars \ {0}
    PROVE  Invert(a) \in Scalars /\ Times(a, Invert(a)) = 1
<1> DEFINE f == [x \in Scalars |-> Times(a, x)]
<1>1. f \in [Scalars -> Scalars]
    BY OperationsAre, ScalarsAre
<1>2. ASSUME NEW x \in Scalars, NEW y \in Scalars, Times(a, x) = Times(a, y) PROVE x = y
  <2>1. x \in Int /\ y \in Int /\ a \in Int /\ a * x \in Int /\ a * y \in Int
      BY ScalarsAre
  <2>2. Congruent(a * x, a * y)
      BY <1>2, <2>1, SameRemainder DEF Times
  <2>3. Congruent(x, y)
      BY <2>1, <2>2, TimesCancels
  <2> QED
      BY <2>3, ScalarsDiffer
<1>3. f \in Injection(Scalars, Scalars)
    BY <1>1, <1>2 DEF Injection, IsInjective
<1>4. IsFiniteSet(Scalars)
    BY PrimeIs, FS_Interval DEF Scalars
<1>5. f \in Surjection(Scalars, Scalars)
    BY <1>3, <1>4, FS_Injection
<1>6. \E x \in Scalars : Times(a, x) = 1
    BY <1>5, ScalarsAre DEF Surjection
<1> QED
    BY <1>6 DEF Invert

-----------------------------------------------------------------------------
(* Powers, and sums of terms *)

\* The powers of an integer, and the sums of the first terms of a polynomial without end.
PowersOf(x) == CHOOSE f \in [Nat -> Int] : f[0] = 1 /\ \A n \in Nat : f[n + 1] = f[n] * x

Sums(a, x) ==
    CHOOSE f \in [Nat -> Int] : f[0] = 0 /\ \A n \in Nat : f[n + 1] = f[n] + a[n] * PowersOf(x)[n]

\* They are what they are chosen to be.
LEMMA PowersAre ==
    ASSUME NEW x \in Int
    PROVE  /\ PowersOf(x) \in [Nat -> Int] /\ PowersOf(x)[0] = 1
           /\ \A n \in Nat : PowersOf(x)[n + 1] = PowersOf(x)[n] * x
<1> DEFINE step == [n \in Nat |-> [p \in Int |-> p * x]]
<1>1. step \in [Nat -> [Int -> Int]] /\ 1 \in Int
    OBVIOUS
<1>2. \E f : Recurs(f, Int, 1, step)
  <2> HIDE DEF step
  <2> QED
      BY <1>1, Recursion
<1>3. PICK f \in [Nat -> Int] : f[0] = 1 /\ \A n \in Nat : f[n + 1] = f[n] * x
    BY <1>2 DEF Recurs
<1>4. \E g \in [Nat -> Int] : g[0] = 1 /\ \A n \in Nat : g[n + 1] = g[n] * x
    BY <1>3
<1> QED
    BY <1>4 DEF PowersOf

\* The sums, too.
LEMMA SumsAre ==
    ASSUME NEW x \in Int, NEW a \in [Nat -> Int]
    PROVE  /\ Sums(a, x) \in [Nat -> Int] /\ Sums(a, x)[0] = 0
           /\ \A n \in Nat : Sums(a, x)[n + 1] = Sums(a, x)[n] + a[n] * PowersOf(x)[n]
<1> DEFINE pow == PowersOf(x)
           step == [n \in Nat |-> [s \in Int |-> s + a[n] * pow[n]]]
<1>1. pow \in [Nat -> Int]
    BY PowersAre
<1> HIDE DEF pow
<1>2. step \in [Nat -> [Int -> Int]] /\ 0 \in Int
    BY <1>1
<1>3. \E f : Recurs(f, Int, 0, step)
  <2> HIDE DEF step
  <2> QED
      BY <1>2, Recursion
<1>4. PICK f \in [Nat -> Int] : f[0] = 0 /\ \A n \in Nat : f[n + 1] = f[n] + a[n] * pow[n]
    BY <1>3 DEF Recurs
<1>5. \E g \in [Nat -> Int] : g[0] = 0 /\ \A n \in Nat : g[n + 1] = g[n] + a[n] * pow[n]
    BY <1>4
<1> QED
    BY <1>5 DEF Sums, pow

\* Terms that are nought add nothing.
LEMMA SumsStay ==
    ASSUME NEW x \in Int, NEW a \in [Nat -> Int], NEW m \in Nat, \A k \in Nat : k >= m => a[k] = 0,
           NEW n \in Nat, n >= m
    PROVE  Sums(a, x)[n] = Sums(a, x)[m]
<1> DEFINE S == Sums(a, x)
           T == {k \in Nat : S[m + k] = S[m]}
           pow == PowersOf(x)
<1>1. S \in [Nat -> Int] /\ \A k \in Nat : S[k + 1] = S[k] + a[k] * pow[k]
    BY SumsAre
<1>2. pow \in [Nat -> Int]
    BY PowersAre
<1> HIDE DEF S, pow
<1>3. 0 \in T
    OBVIOUS
<1>4. ASSUME NEW k \in Nat, k \in T PROVE k + 1 \in T
  <2>1. m + k \in Nat /\ a[m + k] = 0 /\ (m + k) + 1 = m + (k + 1)
      OBVIOUS
  <2>2. S[m + (k + 1)] = S[m + k] + a[m + k] * pow[m + k]
      BY <1>1, <2>1
  <2>3. S[m + k] \in Int /\ pow[m + k] \in Int
      BY <1>1, <1>2
  <2> QED
      BY <1>4, <2>1, <2>2, <2>3
<1> HIDE DEF T
<1>5. n - m \in Nat
    OBVIOUS
<1>6. n - m \in T
    BY <1>3, <1>4, <1>5, Induct
<1> QED
    BY <1>6 DEF T, S

\* c is u times a and w times b; c is a times (u - X); h is Horner's rule from each
\* coefficient of a on, and q what it finds after the first.
Mixes(c, u, a, w, b) == \A k \in Nat : c[k] = u * a[k] + w * b[k]
Moves(c, a, u) == c[0] = u * a[0] /\ \A k \in Nat : c[k + 1] = u * a[k + 1] - a[k]
Divides(q, h, a, u) == \A k \in Nat : h[k] = h[k + 1] * u + a[k] /\ q[k] = h[k + 1]

MixedSums(c, u, a, w, b, x, n) == Sums(c, x)[n] = u * Sums(a, x)[n] + w * Sums(b, x)[n]
MovedSums(c, a, u, x, n) == Sums(c, x)[n + 1] = u * Sums(a, x)[n + 1] - x * Sums(a, x)[n]
DividedSums(q, h, a, u, x, n) ==
    (x - u) * Sums(q, x)[n] = h[n] * PowersOf(x)[n] - h[0] + Sums(a, x)[n]

\* The sums are mixed as the terms are.
LEMMA SumsLinear ==
    ASSUME NEW x \in Int, NEW a \in [Nat -> Int], NEW b \in [Nat -> Int], NEW c \in [Nat -> Int],
           NEW u \in Int, NEW w \in Int, Mixes(c, u, a, w, b), NEW n \in Nat
    PROVE  MixedSums(c, u, a, w, b, x, n)
<1> DEFINE A == Sums(a, x)
           B == Sums(b, x)
           C == Sums(c, x)
           pow == PowersOf(x)
           T == {k \in Nat : C[k] = u * A[k] + w * B[k]}
<1>1. /\ A \in [Nat -> Int] /\ A[0] = 0 /\ \A k \in Nat : A[k + 1] = A[k] + a[k] * pow[k]
      /\ B \in [Nat -> Int] /\ B[0] = 0 /\ \A k \in Nat : B[k + 1] = B[k] + b[k] * pow[k]
      /\ C \in [Nat -> Int] /\ C[0] = 0 /\ \A k \in Nat : C[k + 1] = C[k] + c[k] * pow[k]
    BY SumsAre
<1>2. pow \in [Nat -> Int]
    BY PowersAre
<1> HIDE DEF A, B, C, pow
<1>3. 0 \in T
    BY <1>1
<1>4. ASSUME NEW k \in Nat, k \in T PROVE k + 1 \in T
  <2>1. c[k] = u * a[k] + w * b[k] /\ C[k] = u * A[k] + w * B[k]
      BY <1>4 DEF Mixes
  <2>2. a[k] \in Int /\ b[k] \in Int /\ A[k] \in Int /\ B[k] \in Int /\ pow[k] \in Int
      BY <1>1, <1>2
  <2>3. C[k + 1] = u * A[k] + w * B[k] + (u * a[k] + w * b[k]) * pow[k]
      BY <1>1, <2>1
  <2>4. C[k + 1] = u * (A[k] + a[k] * pow[k]) + w * (B[k] + b[k] * pow[k])
      BY <2>2, <2>3
  <2> QED
      BY <1>1, <2>4
<1> HIDE DEF T
<1>5. n \in T
    BY <1>3, <1>4, Induct
<1> QED
    BY <1>5 DEF T, A, B, C, MixedSums

\* Coefficients that differ by multiples of Prime make sums that do.
LEMMA SumsCongruent ==
    ASSUME NEW x \in Int, NEW a \in [Nat -> Int], NEW b \in [Nat -> Int],
           \A k \in Nat : Congruent(a[k], b[k]), NEW n \in Nat
    PROVE  Congruent(Sums(a, x)[n], Sums(b, x)[n])
<1> DEFINE A == Sums(a, x)
           B == Sums(b, x)
           pow == PowersOf(x)
           T == {k \in Nat : Congruent(A[k], B[k])}
<1>1. /\ A \in [Nat -> Int] /\ A[0] = 0 /\ \A k \in Nat : A[k + 1] = A[k] + a[k] * pow[k]
      /\ B \in [Nat -> Int] /\ B[0] = 0 /\ \A k \in Nat : B[k + 1] = B[k] + b[k] * pow[k]
    BY SumsAre
<1>2. pow \in [Nat -> Int]
    BY PowersAre
<1> HIDE DEF A, B, pow
<1>3. 0 \in T
    BY <1>1, CongruentSelf
<1>4. ASSUME NEW k \in Nat, k \in T PROVE k + 1 \in T
  <2>1. a[k] \in Int /\ b[k] \in Int /\ A[k] \in Int /\ B[k] \in Int /\ pow[k] \in Int
      BY <1>1, <1>2
  <2>2. Congruent(A[k], B[k]) /\ Congruent(a[k], b[k]) /\ Congruent(pow[k], pow[k])
      BY <1>4, <2>1, CongruentSelf
  <2>3. Congruent(a[k] * pow[k], b[k] * pow[k])
      BY <2>1, <2>2, CongruentProduct
  <2> DEFINE s == a[k] * pow[k]
             t == b[k] * pow[k]
  <2>4. s \in Int /\ t \in Int /\ Congruent(s, t) /\ A[k + 1] = A[k] + s /\ B[k + 1] = B[k] + t
      BY <1>1, <2>1, <2>3
  <2> HIDE DEF s, t
  <2>5. Congruent(A[k] + s, B[k] + t)
      BY <2>1, <2>2, <2>4, CongruentSum
  <2> QED
      BY <2>4, <2>5
<1> HIDE DEF T
<1>5. n \in T
    BY <1>3, <1>4, Induct
<1> QED
    BY <1>5 DEF T, A, B

\* The sums of a polynomial times (u - X)
LEMMA SumsShift ==
    ASSUME NEW x \in Int, NEW a \in [Nat -> Int], NEW c \in [Nat -> Int], NEW u \in Int,
           Moves(c, a, u), NEW n \in Nat
    PROVE  MovedSums(c, a, u, x, n)
<1> DEFINE A == Sums(a, x)
           C == Sums(c, x)
           pow == PowersOf(x)
           T == {k \in Nat : C[k + 1] = u * A[k + 1] - x * A[k]}
<1>1. /\ A \in [Nat -> Int] /\ A[0] = 0 /\ \A k \in Nat : A[k + 1] = A[k] + a[k] * pow[k]
      /\ C \in [Nat -> Int] /\ C[0] = 0 /\ \A k \in Nat : C[k + 1] = C[k] + c[k] * pow[k]
    BY SumsAre
<1>2. pow \in [Nat -> Int] /\ pow[0] = 1 /\ \A k \in Nat : pow[k + 1] = pow[k] * x
    BY PowersAre
<1> HIDE DEF A, C, pow
<1>3. 0 \in T
  <2>1. A[0 + 1] = a[0] * 1 /\ C[0 + 1] = c[0] * 1 /\ c[0] = u * a[0]
      BY <1>1, <1>2 DEF Moves
  <2> QED
      BY <1>1, <2>1
<1>4. ASSUME NEW k \in Nat, k \in T PROVE k + 1 \in T
  <2>1. /\ a[k] \in Int /\ a[k + 1] \in Int /\ A[k] \in Int /\ A[k + 1] \in Int
        /\ pow[k] \in Int /\ pow[k + 1] = pow[k] * x /\ k + 1 \in Nat
    <3>1. k + 1 \in Nat
        OBVIOUS
    <3> QED
        BY <1>1, <1>2, <3>1
  <2>2. C[k + 1] = u * A[k + 1] - x * A[k] /\ c[k + 1] = u * a[k + 1] - a[k]
      BY <1>4 DEF Moves
  <2>3. C[(k + 1) + 1] = u * A[k + 1] - x * A[k] + (u * a[k + 1] - a[k]) * pow[k + 1]
      BY <1>1, <2>1, <2>2
  <2>4. A[(k + 1) + 1] = A[k + 1] + a[k + 1] * pow[k + 1] /\ A[k + 1] = A[k] + a[k] * pow[k]
      BY <1>1, <2>1
  <2> DEFINE p == pow[k]
             q == pow[k + 1]
             d == a[k]
             e == a[k + 1]
             S == A[k]
             R == A[k + 1]
  <2>5. /\ p \in Int /\ q = p * x /\ d \in Int /\ e \in Int /\ S \in Int /\ R = S + d * p
        /\ C[(k + 1) + 1] = u * R - x * S + (u * e - d) * q
        /\ A[(k + 1) + 1] = R + e * q
      BY <2>1, <2>3, <2>4
  <2> HIDE DEF p, q, d, e, S, R
  <2>6. u * R - x * S + (u * e - d) * q = u * (R + e * q) - x * R
    <3>1. x * R = x * S + d * q
        BY <2>5
    <3>2. (u * e - d) * q = u * (e * q) - d * q
        BY <2>5
    <3>3. u * (R + e * q) = u * R + u * (e * q)
        BY <2>5
    <3> QED
        BY <2>5, <3>1, <3>2, <3>3
  <2> QED
      BY <2>5, <2>6 DEF R
<1> HIDE DEF T
<1>5. n \in T
    BY <1>3, <1>4, Induct
<1> QED
    BY <1>5 DEF T, A, C, MovedSums

\* Dividing by (X - u), from h, what Horner's rule finds from each coefficient on: what
\* is left is h[0].
LEMMA SumsFactor ==
    ASSUME NEW x \in Int, NEW a \in [Nat -> Int], NEW u \in Int, NEW h \in [Nat -> Int],
           NEW q \in [Nat -> Int], Divides(q, h, a, u), NEW n \in Nat
    PROVE  DividedSums(q, h, a, u, x, n)
<1> DEFINE A == Sums(a, x)
           Q == Sums(q, x)
           pow == PowersOf(x)
           T == {k \in Nat : (x - u) * Q[k] = h[k] * pow[k] - h[0] + A[k]}
<1>1. /\ A \in [Nat -> Int] /\ A[0] = 0 /\ \A k \in Nat : A[k + 1] = A[k] + a[k] * pow[k]
      /\ Q \in [Nat -> Int] /\ Q[0] = 0 /\ \A k \in Nat : Q[k + 1] = Q[k] + q[k] * pow[k]
    BY SumsAre
<1>2. pow \in [Nat -> Int] /\ pow[0] = 1 /\ \A k \in Nat : pow[k + 1] = pow[k] * x
    BY PowersAre
<1> HIDE DEF A, Q, pow
<1>3. 0 \in T
    BY <1>1, <1>2
<1>4. ASSUME NEW k \in Nat, k \in T PROVE k + 1 \in T
  <2> DEFINE p == pow[k]
             e == h[k + 1]
             d == h[k]
             z == h[0]
             S == A[k]
             R == Q[k]
  <2>1. /\ p \in Int /\ e \in Int /\ z \in Int /\ d = e * u + a[k] /\ S \in Int /\ R \in Int
        /\ (x - u) * R = d * p - z + S /\ a[k] \in Int
      BY <1>1, <1>2, <1>4 DEF Divides
  <2>2. pow[k + 1] = p * x /\ A[k + 1] = S + a[k] * p /\ Q[k + 1] = R + e * p
      BY <1>1, <1>2 DEF Divides
  <2> HIDE DEF p, e, d, z, S, R
  <2>3. (x - u) * (R + e * p) = e * (p * x) - z + (S + a[k] * p)
    <3>1. (x - u) * (R + e * p) = (x - u) * R + (x - u) * (e * p)
        BY <2>1
    <3>2. (x - u) * (e * p) = e * (p * x) - (e * u) * p
        BY <2>1
    <3>3. d * p = (e * u) * p + a[k] * p
        BY <2>1
    <3> QED
        BY <2>1, <3>1, <3>2, <3>3
  <2>4. k + 1 \in Nat
      OBVIOUS
  <2> QED
      BY <2>2, <2>3, <2>4 DEF e, z
<1> HIDE DEF T
<1>5. n \in T
    BY <1>3, <1>4, Induct
<1> QED
    BY <1>5 DEF T, A, Q, pow, DividedSums

-----------------------------------------------------------------------------
(* Values of a polynomial *)

\* A polynomial is a sequence of scalars.
LEMMA ScalarSeq ==
    ASSUME NEW c \in Seq(Scalars)
    PROVE  /\ Len(c) \in Nat /\ DOMAIN c = 1 .. Len(c)
           /\ \A i \in 1 .. Len(c) : c[i] \in Scalars /\ c[i] \in Int
<1>1. Len(c) \in Nat /\ DOMAIN c = 1 .. Len(c) /\ \A i \in 1 .. Len(c) : c[i] \in Scalars
    OBVIOUS
<1> QED
    BY <1>1, ScalarsAre

\* The coefficients of a polynomial, with noughts after the last
Coef(c) == [k \in Nat |-> IF k < Len(c) THEN c[k + 1] ELSE 0]

\* They are integers, and the coefficients of the polynomial as far as it goes.
LEMMA CoefIs ==
    ASSUME NEW c \in Seq(Scalars)
    PROVE  /\ Len(c) \in Nat /\ Coef(c) \in [Nat -> Int] /\ \A k \in Nat : k >= Len(c) => Coef(c)[k] = 0
           /\ \A k \in Nat : k < Len(c) => Coef(c)[k] = c[k + 1]
<1>1. Len(c) \in Nat /\ \A k \in Nat : k < Len(c) => k + 1 \in 1 .. Len(c)
    OBVIOUS
<1>2. \A i \in 1 .. Len(c) : c[i] \in Int
    BY ScalarSeq
<1> QED
    BY <1>1, <1>2 DEF Coef

\* Down from coefficient n, from which on there are none
Horner(h, a, n, u) ==
    /\ h \in [Nat -> Int]
    /\ \A k \in Nat : h[k] = h[k + 1] * u + a[k]
    /\ \A k \in Nat : k >= n => h[k] = 0

\* There is one: it starts from the last term.
LEMMA SomeHorner ==
    ASSUME NEW a \in [Nat -> Int], NEW n \in Nat, \A k \in Nat : k >= n => a[k] = 0, NEW u \in Int
    PROVE  \E h : Horner(h, a, n, u)
<1> DEFINE step == [m \in Nat |-> [s \in Int |-> s * u + (IF m < n THEN a[n - 1 - m] ELSE 0)]]
<1>1. step \in [Nat -> [Int -> Int]] /\ 0 \in Int
  <2>1. \A m \in Nat : m < n => n - 1 - m \in Nat
      OBVIOUS
  <2> QED
      BY <2>1
<1>2. \E r : Recurs(r, Int, 0, step)
  <2> HIDE DEF step
  <2> QED
      BY <1>1, Recursion
<1>3. PICK r \in [Nat -> Int] :
        r[0] = 0 /\ \A m \in Nat : r[m + 1] = r[m] * u + (IF m < n THEN a[n - 1 - m] ELSE 0)
    BY <1>2 DEF Recurs
<1> DEFINE h == [k \in Nat |-> IF k < n THEN r[n - k] ELSE 0]
<1>4. h \in [Nat -> Int]
  <2>1. \A k \in Nat : k < n => n - k \in Nat
      OBVIOUS
  <2> QED
      BY <1>3, <2>1
<1>5. ASSUME NEW k \in Nat PROVE h[k] = h[k + 1] * u + a[k]
  <2>1. CASE k < n
    <3>1. n - 1 - k \in Nat /\ n - k = (n - 1 - k) + 1 /\ n - 1 - k < n /\ n - 1 - (n - 1 - k) = k
        BY <2>1
    <3>2. r[n - k] = r[n - 1 - k] * u + a[k]
        BY <1>3, <3>1
    <3>3. h[k + 1] = r[n - 1 - k]
      <4>1. k + 1 \in Nat /\ n - (k + 1) = n - 1 - k
          OBVIOUS
      <4>2. CASE k + 1 < n
          BY <4>1, <4>2
      <4>3. CASE ~(k + 1 < n)
        <5>1. n - 1 - k = 0
            BY <2>1, <4>3
        <5> QED
            BY <1>3, <4>1, <4>3, <5>1
      <4> QED
          BY <4>2, <4>3
    <3> QED
        BY <2>1, <3>2, <3>3
  <2>2. CASE ~(k < n)
    <3>1. a[k] = 0 /\ k + 1 \in Nat /\ ~(k + 1 < n)
        BY <2>2
    <3>2. h[k] = 0 /\ h[k + 1] = 0
        BY <2>2, <3>1
    <3> QED
        BY <3>1, <3>2
  <2> QED
      BY <2>1, <2>2
<1>6. \A k \in Nat : k >= n => h[k] = 0
    OBVIOUS
<1>7. Horner(h, a, n, u)
    BY <1>4, <1>5, <1>6 DEF Horner
<1> QED
    BY <1>7

\* Horner's rule finds the sum of the coefficients times the powers.
LEMMA HornerSums ==
    ASSUME NEW a \in [Nat -> Int], NEW n \in Nat, NEW u \in Int, NEW h, Horner(h, a, n, u)
    PROVE  h[0] = Sums(a, u)[n]
<1> DEFINE q == [k \in Nat |-> h[k + 1]]
<1>1. h \in [Nat -> Int] /\ \A k \in Nat : h[k] = h[k + 1] * u + a[k]
    BY DEF Horner
<1>2. h[n] = 0 /\ h[0] \in Int
    BY DEF Horner
<1>3. q \in [Nat -> Int] /\ Divides(q, h, a, u)
    BY <1>1 DEF Divides
<1> HIDE DEF q
<1>4. (u - u) * Sums(q, u)[n] = h[n] * PowersOf(u)[n] - h[0] + Sums(a, u)[n]
  <2>1. DividedSums(q, h, a, u, u, n)
    BY <1>1, <1>3, SumsFactor
  <2> QED
    BY <2>1 DEF DividedSums
<1>5. Sums(q, u)[n] \in Int /\ PowersOf(u)[n] \in Int /\ Sums(a, u)[n] \in Int
    BY <1>3, SumsAre, PowersAre
<1> QED
    BY <1>2, <1>4, <1>5

\* eval is Horner's rule.
LEMMA EvalRuns ==
    ASSUME NEW c \in Seq(Scalars), c # <<>>, NEW x \in Scalars
    PROVE  \E b \in [1 .. Len(c) -> Scalars] :
             /\ Eval(c, x) = b[1] /\ b[Len(c)] = c[Len(c)]
             /\ \A i \in 1 .. Len(c) - 1 : b[i] = Plus(Times(b[i + 1], x), c[i])
<1> DEFINE n == Len(c)
           step == [m \in Nat |-> [s \in Scalars |-> IF m < n THEN Plus(Times(s, x), c[n - m]) ELSE s]]
<1>1. n \in Nat \ {0} /\ DOMAIN c = 1 .. n /\ \A i \in 1 .. n : c[i] \in Scalars
    OBVIOUS
<1>2. Last(c) = c[n]
    BY DEF Last
<1> HIDE DEF n
<1>3. \A s \in Scalars, t \in Scalars : Plus(Times(s, x), t) \in Scalars
    BY OperationsAre, ScalarsAre
<1>4. step \in [Nat -> [Scalars -> Scalars]]
  <2>1. ASSUME NEW m \in Nat, m < n, m # 0 PROVE n - m \in 1 .. n
      BY <1>1, <2>1
  <2>2. ASSUME NEW m \in Nat, m # 0, NEW s \in Scalars
        PROVE (IF m < n THEN Plus(Times(s, x), c[n - m]) ELSE s) \in Scalars
      BY <1>1, <1>3, <2>1, <2>2
  <2>3. ASSUME NEW s \in Scalars PROVE (IF 0 < n THEN Plus(Times(s, x), c[n - 0]) ELSE s) \in Scalars
      BY <1>1, <1>3
  <2> QED
      BY <2>2, <2>3
<1>5. c[n] \in Scalars /\ n - 1 \in Nat
    BY <1>1
<1>6. \E g : Runs(g, n - 1, Scalars, c[n], step)
  <2> HIDE DEF step
  <2> QED
      BY <1>4, <1>5, SomeRun
<1>7. PICK g \in [0 .. n - 1 -> Scalars] :
        \A m \in 0 .. n - 1 : g[m] = IF m = 0 THEN c[n] ELSE Plus(Times(g[m - 1], x), c[n - m])
  <2>1. PICK g : Runs(g, n - 1, Scalars, c[n], step)
      BY <1>6
  <2>2. ASSUME NEW m \in 0 .. n - 1 PROVE g[m] = IF m = 0 THEN c[n] ELSE Plus(Times(g[m - 1], x), c[n - m])
    <3>1. g \in [0 .. n - 1 -> Scalars] /\ g[m] = IF m = 0 THEN c[n] ELSE step[m][g[m - 1]]
      <4> HIDE DEF step
      <4> QED
        BY <2>1 DEF Runs
    <3>2. CASE m # 0
      <4>1. m - 1 \in 0 .. n - 1 /\ m < n /\ m \in Nat
          BY <1>1, <3>2
      <4> QED
          BY <3>1, <3>2, <4>1
    <3> QED
        BY <3>1, <3>2
  <2> QED
      BY <2>1, <2>2 DEF Runs
<1> HIDE DEF step
<1> DEFINE f == [i \in 1 .. n |-> g[n - i]]
<1>8. \A i \in 1 .. n : f[i] = IF i = n THEN Last(c) ELSE Plus(Times(f[i + 1], x), c[i])
  <2> SUFFICES ASSUME NEW i \in 1 .. n
               PROVE  f[i] = IF i = n THEN Last(c) ELSE Plus(Times(f[i + 1], x), c[i])
      OBVIOUS
  <2>1. n - i \in 0 .. n - 1 /\ n - (n - i) = i /\ (i # n => n - i # 0 /\ i + 1 \in 1 .. n /\ (n - i) - 1 = n - (i + 1))
      BY <1>1
  <2>2. g[n - i] = IF n - i = 0 THEN c[n] ELSE Plus(Times(g[(n - i) - 1], x), c[n - (n - i)])
      BY <1>7, <2>1
  <2> QED
      BY <1>1, <1>2, <2>1, <2>2
<1>9. f = [i \in DOMAIN c |-> IF i = n THEN Last(c) ELSE Plus(Times(f[i + 1], x), c[i])]
    BY <1>1, <1>8
<1> DEFINE b == CHOOSE h : h = [i \in DOMAIN c |-> IF i = n THEN Last(c) ELSE Plus(Times(h[i + 1], x), c[i])]
<1>10. b = [i \in DOMAIN c |-> IF i = n THEN Last(c) ELSE Plus(Times(b[i + 1], x), c[i])]
    BY <1>9
<1>11. Eval(c, x) = b[1]
    BY DEF Eval, n
<1> HIDE DEF b
<1>12. \A i \in 1 .. n : b[i] = IF i = n THEN c[n] ELSE Plus(Times(b[i + 1], x), c[i])
    BY <1>1, <1>2, <1>10
<1>13. \A m \in 0 .. n - 1 : b[n - m] \in Scalars
  <2> DEFINE T == {m \in 0 .. n - 1 : b[n - m] \in Scalars}
  <2>1. 0 \in T
      BY <1>1, <1>12
  <2>2. ASSUME NEW m \in 0 .. (n - 1) - 1, m \in T PROVE m + 1 \in T
    <3>1. /\ n - (m + 1) \in 1 .. n /\ n - (m + 1) # n /\ (n - (m + 1)) + 1 = n - m
          /\ m + 1 \in 0 .. n - 1
        BY <1>1
    <3>2. b[n - (m + 1)] = Plus(Times(b[n - m], x), c[n - (m + 1)])
        BY <1>12, <3>1
    <3> QED
        BY <1>1, <1>3, <2>2, <3>1, <3>2
  <2> HIDE DEF T
  <2>3. \A m \in 0 .. n - 1 : m \in T
      BY <1>5, <2>1, <2>2, UpTo
  <2> QED
      BY <2>3 DEF T
<1>14. b \in [1 .. n -> Scalars]
  <2>1. ASSUME NEW i \in 1 .. n PROVE b[i] \in Scalars
    <3>1. n - i \in 0 .. n - 1 /\ n - (n - i) = i
        BY <1>1
    <3> QED
        BY <1>13, <3>1
  <2> QED
      BY <1>1, <1>10, <2>1
<1>15. b[n] = c[n] /\ \A i \in 1 .. n - 1 : b[i] = Plus(Times(b[i + 1], x), c[i])
    BY <1>1, <1>12
<1> QED
    BY <1>11, <1>14, <1>15 DEF n

\* One step of Horner's rule, with scalars that stand for integers
LEMMA HornerStep ==
    ASSUME NEW s \in Scalars, NEW x \in Scalars, NEW t \in Scalars, NEW r \in Int, Congruent(s, r)
    PROVE  Plus(Times(s, x), t) \in Scalars /\ Congruent(Plus(Times(s, x), t), r * x + t)
<1>1. s \in Int /\ x \in Int /\ t \in Int /\ Scalars \subseteq Int
    BY ScalarsAre
<1> DEFINE p == Times(s, x)
           sx == s * x
           rx == r * x
<1>2. p \in Scalars /\ Congruent(p, sx) /\ p \in Int /\ sx \in Int /\ rx \in Int
  <2>1. p \in Scalars /\ Congruent(p, sx)
      BY <1>1, OperationsAre
  <2>2. p \in Int
      BY <1>1, <2>1
  <2> QED
      BY <1>1, <2>1, <2>2
<1>3. Congruent(sx, rx)
    BY <1>1, CongruentSelf, CongruentProduct
<1>4. Congruent(x, x) /\ Congruent(t, t)
    BY <1>1, CongruentSelf
<1> HIDE DEF p, sx, rx
<1>5. Congruent(p, rx)
    BY <1>2, <1>3, CongruentTrans
<1> DEFINE o == Plus(p, t)
           pt == p + t
           e == rx + t
<1>6. o \in Scalars /\ Congruent(o, pt) /\ pt \in Int /\ e \in Int
    BY <1>1, <1>2, OperationsAre
<1>7. Congruent(pt, e)
    BY <1>1, <1>2, <1>4, <1>5, CongruentSum
<1> HIDE DEF o, pt, e
<1>8. o \in Scalars /\ Congruent(o, e)
    BY <1>1, <1>6, <1>7, CongruentTrans
<1> QED
    BY <1>8 DEF o, e, rx, p

\* eval finds the sum of the coefficients times the powers.
LEMMA EvalIs ==
    ASSUME NEW c \in Seq(Scalars), NEW x \in Scalars
    PROVE  /\ Eval(c, x) \in Scalars
           /\ \A n \in Nat : n >= Len(c) => Congruent(Eval(c, x), Sums(Coef(c), x)[n])
<1> DEFINE a == Coef(c)
           l == Len(c)
<1>1. /\ l \in Nat /\ DOMAIN c = 1 .. l /\ \A i \in 1 .. l : c[i] \in Scalars /\ c[i] \in Int
      /\ x \in Int
    BY ScalarSeq, ScalarsAre
<1>2. a \in [Nat -> Int] /\ (\A k \in Nat : k >= l => a[k] = 0) /\ \A k \in Nat : k < l => a[k] = c[k + 1]
    BY <1>1, CoefIs
<1>3. l = 0 <=> c = <<>>
    OBVIOUS
<1> HIDE DEF a, l
<1>4. \A n \in Nat : n >= l => Sums(a, x)[n] = Sums(a, x)[l]
    BY <1>1, <1>2, SumsStay
<1>5. CASE c = <<>>
  <2>1. Eval(c, x) = 0 /\ l = 0
      BY <1>3, <1>5 DEF Eval
  <2>2. Sums(a, x)[0] = 0
      BY <1>1, <1>2, SumsAre
  <2>3. Congruent(0, 0) /\ 0 \in Scalars
      BY CongruentSelf, ScalarsAre
  <2> QED
      BY <1>4, <2>1, <2>2, <2>3 DEF a, l
<1>6. CASE c # <<>>
  <2>1. PICK b \in [1 .. l -> Scalars] :
             /\ Eval(c, x) = b[1] /\ b[l] = c[l]
             /\ \A i \in 1 .. l - 1 : b[i] = Plus(Times(b[i + 1], x), c[i])
      BY <1>6, EvalRuns DEF l
  <2>2. PICK h : Horner(h, a, l, x)
      BY <1>1, <1>2, SomeHorner
  <2>3. h[0] = Sums(a, x)[l]
    <3>1. a \in [Nat -> Int] /\ l \in Nat /\ x \in Int
        BY <1>1, <1>2
    <3> QED
        BY <3>1, <2>2, HornerSums
  <2>4. h \in [Nat -> Int] /\ (\A k \in Nat : h[k] = h[k + 1] * x + a[k]) /\ h[l] = 0
      BY <1>1, <2>2 DEF Horner
  <2>5. l - 1 \in Nat
      BY <1>1, <1>3, <1>6
  <2> DEFINE T == {m \in 0 .. l - 1 : Congruent(b[l - m], h[(l - 1) - m])}
  <2>6. 0 \in T
    <3>1. h[l - 1] = h[l] * x + a[l - 1] /\ a[l - 1] = c[l] /\ c[l] \in Int
      <4>1. (l - 1) + 1 = l /\ l \in 1 .. l /\ l - 1 < l
          BY <1>1, <2>5
      <4>2. h[l - 1] = h[(l - 1) + 1] * x + a[l - 1] /\ a[l - 1] = c[(l - 1) + 1]
          BY <1>2, <2>4, <2>5, <4>1
      <4> QED
          BY <1>1, <4>1, <4>2
    <3>2. h[l - 1] = c[l]
        BY <1>1, <2>4, <2>5, <3>1
    <3>3. Congruent(b[l], h[l - 1])
        BY <2>1, <3>1, <3>2, CongruentSelf
    <3> QED
        BY <1>1, <2>5, <3>3
  <2>7. ASSUME NEW m \in 0 .. (l - 1) - 1, m \in T PROVE m + 1 \in T
    <3> DEFINE i == l - (m + 1)
               k == (l - 1) - (m + 1)
    <3>1. /\ i \in 1 .. l - 1 /\ k \in Nat /\ k + 1 = (l - 1) - m /\ i + 1 = l - m /\ k < l /\ k + 1 = i
          /\ m + 1 \in 0 .. l - 1 /\ k + 1 \in Nat /\ i + 1 \in 1 .. l
        BY <1>1, <2>5
    <3> HIDE DEF i, k
    <3>2. Congruent(b[i + 1], h[k + 1])
        BY <2>7, <3>1
    <3>3. b[i] = Plus(Times(b[i + 1], x), c[i]) /\ h[k] = h[k + 1] * x + a[k] /\ a[k] = c[i]
        BY <1>2, <2>1, <2>4, <3>1
    <3>4. b[i + 1] \in Scalars /\ h[k + 1] \in Int /\ c[i] \in Scalars
      <4>1. b[i + 1] \in Scalars
          BY <3>1
      <4>2. h[k + 1] \in Int
          BY <2>4, <3>1
      <4>3. c[i] \in Scalars
          BY <1>1, <3>1
      <4> QED
          BY <4>1, <4>2, <4>3
    <3>5. Congruent(b[i], h[k])
        BY <3>2, <3>3, <3>4, HornerStep
    <3> QED
        BY <3>1, <3>5 DEF i, k
  <2> HIDE DEF T
  <2>8. l - 1 \in T
    <3>1. \A m \in 0 .. l - 1 : m \in T
        BY <2>5, <2>6, <2>7, UpTo
    <3> QED
        BY <2>5, <3>1
  <2>9. Congruent(b[1], h[0])
    <3>1. l - (l - 1) = 1 /\ (l - 1) - (l - 1) = 0
        BY <1>1
    <3> QED
        BY <2>8, <3>1 DEF T
  <2>10. b[1] \in Scalars
      BY <1>1, <2>5
  <2> QED
      BY <1>4, <2>1, <2>3, <2>9, <2>10 DEF a, l
<1> QED
    BY <1>5, <1>6

\* c is u * a + w * b, coefficient by coefficient.
Combines(c, u, a, w, b) == \A k \in Nat : Congruent(Coef(c)[k], u * Coef(a)[k] + w * Coef(b)[k])

\* c is a times (u - X), coefficient by coefficient.
Shifts(c, a, u) ==
    /\ Congruent(Coef(c)[0], u * Coef(a)[0])
    /\ \A k \in Nat : Congruent(Coef(c)[k + 1], u * Coef(a)[k + 1] - Coef(a)[k])

\* It is so at every point then.
LEMMA EvalLinear ==
    ASSUME NEW a \in Seq(Scalars), NEW b \in Seq(Scalars), NEW c \in Seq(Scalars),
           NEW u \in Int, NEW w \in Int, NEW x \in Scalars, Combines(c, u, a, w, b)
    PROVE  Congruent(Eval(c, x), u * Eval(a, x) + w * Eval(b, x))
<1> DEFINE A == Coef(a)
           B == Coef(b)
           C == Coef(c)
           d == [k \in Nat |-> u * A[k] + w * B[k]]
<1>1. /\ A \in [Nat -> Int] /\ B \in [Nat -> Int] /\ C \in [Nat -> Int]
      /\ Len(a) \in Nat /\ Len(b) \in Nat /\ Len(c) \in Nat /\ x \in Int
    BY CoefIs, ScalarsAre
<1>2. \A k \in Nat : Congruent(C[k], u * A[k] + w * B[k])
    BY DEF Combines
<1> HIDE DEF A, B, C
<1>3. d \in [Nat -> Int] /\ Mixes(d, u, A, w, B) /\ \A k \in Nat : Congruent(C[k], d[k])
  <2>1. ASSUME NEW k \in Nat PROVE u * A[k] + w * B[k] \in Int
    <3>1. A[k] \in Int /\ B[k] \in Int
        BY <1>1
    <3> QED
        BY <3>1
  <2> QED
      BY <1>2, <2>1 DEF Mixes
<1> HIDE DEF d
<1> DEFINE n == Len(a) + Len(b) + Len(c)
           SA == Sums(A, x)[n]
           SB == Sums(B, x)[n]
           SC == Sums(C, x)[n]
           SD == Sums(d, x)[n]
           ea == Eval(a, x)
           eb == Eval(b, x)
           ec == Eval(c, x)
<1>4. n \in Nat /\ n >= Len(a) /\ n >= Len(b) /\ n >= Len(c)
  <2>1. Len(a) \in Nat /\ Len(b) \in Nat /\ Len(c) \in Nat
      BY <1>1
  <2> QED
      BY <2>1
<1>5. /\ Congruent(ea, SA) /\ Congruent(eb, SB) /\ Congruent(ec, SC)
      /\ ea \in Int /\ eb \in Int /\ ec \in Int
  <2>1. Congruent(ea, SA) /\ Congruent(eb, SB) /\ Congruent(ec, SC)
      BY <1>4, EvalIs DEF A, B, C
  <2> QED
      BY <2>1, EvalIs, ScalarsAre
<1> HIDE DEF n
<1>6. SA \in Int /\ SB \in Int /\ SC \in Int /\ SD \in Int
  <2>1. \A f \in [Nat -> Int] : Sums(f, x)[n] \in Int
      BY <1>1, <1>4, SumsAre
  <2> QED
      BY <1>1, <1>3, <2>1, Zenon
<1>7. SD = u * SA + w * SB
  <2>1. MixedSums(d, u, A, w, B, x, n)
      BY <1>1, <1>3, <1>4, SumsLinear
  <2> QED
      BY <2>1 DEF MixedSums
<1>8. Congruent(SC, SD)
    BY <1>1, <1>3, <1>4, SumsCongruent
<1> HIDE DEF SA, SB, SC, SD, ea, eb, ec
<1>9. Congruent(ec, SD)
    BY <1>5, <1>6, <1>8, CongruentTrans
<1> DEFINE e == u * ea
           s == u * SA
           f == w * eb
           t == w * SB
<1>10. e \in Int /\ s \in Int /\ f \in Int /\ t \in Int /\ SD = s + t
    BY <1>5, <1>6, <1>7
<1>11. Congruent(s, e) /\ Congruent(t, f)
  <2>1. Congruent(SA, ea) /\ Congruent(SB, eb) /\ Congruent(u, u) /\ Congruent(w, w)
      BY <1>5, <1>6, CongruentSym, CongruentSelf
  <2> QED
      BY <1>5, <1>6, <2>1, CongruentProduct
<1> HIDE DEF e, s, f, t
<1>12. Congruent(s + t, e + f)
    BY <1>10, <1>11, CongruentSum
<1> DEFINE g == e + f
<1>13. g \in Int /\ Congruent(SD, g)
    BY <1>10, <1>12
<1> HIDE DEF g
<1>14. Congruent(ec, g)
    BY <1>5, <1>6, <1>9, <1>13, CongruentTrans
<1> QED
    BY <1>14 DEF g, e, f, ea, eb, ec

\* The same for a product with (u - X).
LEMMA EvalShift ==
    ASSUME NEW a \in Seq(Scalars), NEW c \in Seq(Scalars), NEW u \in Int, NEW x \in Scalars, Shifts(c, a, u)
    PROVE  Congruent(Eval(c, x), (u - x) * Eval(a, x))
<1> DEFINE A == Coef(a)
           C == Coef(c)
           d == [k \in Nat |-> u * A[k] - (IF k = 0 THEN 0 ELSE A[k - 1])]
<1>1. /\ A \in [Nat -> Int] /\ C \in [Nat -> Int]
      /\ Len(a) \in Nat /\ Len(c) \in Nat /\ x \in Int
    BY CoefIs, ScalarsAre
<1>2. Congruent(C[0], u * A[0]) /\ \A k \in Nat : Congruent(C[k + 1], u * A[k + 1] - A[k])
    BY DEF Shifts
<1> HIDE DEF A, C
<1>3. /\ d \in [Nat -> Int] /\ Moves(d, A, u)
      /\ \A k \in Nat : Congruent(C[k], d[k])
  <2>1. d \in [Nat -> Int]
    <3>1. ASSUME NEW k \in Nat PROVE u * A[k] - (IF k = 0 THEN 0 ELSE A[k - 1]) \in Int
      <4>1. A[k] \in Int /\ (k # 0 => A[k - 1] \in Int)
        <5>1. k # 0 => k - 1 \in Nat
            OBVIOUS
        <5> QED
            BY <1>1, <5>1
      <4> QED
          BY <4>1
    <3> QED
        BY <3>1
  <2>2. d[0] = u * A[0]
      BY <1>1
  <2>3. ASSUME NEW k \in Nat PROVE d[k + 1] = u * A[k + 1] - A[k]
    <3>1. k + 1 \in Nat /\ k + 1 # 0 /\ (k + 1) - 1 = k
        OBVIOUS
    <3> QED
        BY <3>1
  <2> HIDE DEF d
  <2>4. ASSUME NEW k \in Nat PROVE Congruent(C[k], d[k])
    <3>1. CASE k = 0
        BY <1>2, <2>2, <3>1
    <3>2. CASE k # 0
      <4>1. k - 1 \in Nat /\ (k - 1) + 1 = k
          BY <3>2
      <4> QED
          BY <1>2, <2>3, <4>1
    <3> QED
        BY <3>1, <3>2
  <2> QED
      BY <2>1, <2>2, <2>3, <2>4 DEF Moves
<1> HIDE DEF d
<1> DEFINE n == Len(a) + Len(c)
           SA == Sums(A, x)[n]
           SR == Sums(A, x)[n + 1]
           SC == Sums(C, x)[n + 1]
           SD == Sums(d, x)[n + 1]
           ea == Eval(a, x)
           ec == Eval(c, x)
<1>4. n \in Nat /\ n >= Len(a) /\ n + 1 \in Nat /\ n + 1 >= Len(c) /\ n + 1 >= Len(a)
    BY <1>1
<1>5. Congruent(ea, SA) /\ Congruent(ec, SC) /\ ea \in Int /\ ec \in Int
  <2>1. Congruent(ea, SA) /\ Congruent(ec, SC)
      BY <1>4, EvalIs DEF A, C
  <2> QED
      BY <2>1, EvalIs, ScalarsAre
<1>6. SR = SA
  <2>1. \A k \in Nat : k >= Len(a) => A[k] = 0
      BY CoefIs DEF A
  <2>2. SR = Sums(A, x)[Len(a)] /\ SA = Sums(A, x)[Len(a)]
    <3> HIDE DEF n
    <3>1. x \in Int /\ A \in [Nat -> Int] /\ Len(a) \in Nat
        BY <1>1
    <3>2. n \in Nat /\ n >= Len(a) /\ n + 1 \in Nat /\ n + 1 >= Len(a)
        BY <1>4
    <3>3. \A m \in Nat : m >= Len(a) => Sums(A, x)[m] = Sums(A, x)[Len(a)]
        BY <2>1, <3>1, SumsStay
    <3> QED
        BY <3>2, <3>3
  <2> QED
      BY <2>2
<1> HIDE DEF n
<1>7. SA \in Int /\ SC \in Int /\ SD \in Int
  <2>1. Sums(A, x) \in [Nat -> Int] /\ Sums(C, x) \in [Nat -> Int] /\ Sums(d, x) \in [Nat -> Int]
      BY <1>1, <1>3, SumsAre
  <2> QED
      BY <1>4, <2>1
<1>8. SD = u * SR - x * SA
  <2>1. MovedSums(d, A, u, x, n)
      BY <1>1, <1>3, <1>4, SumsShift
  <2> QED
      BY <2>1 DEF MovedSums
<1>9. Congruent(SC, SD)
    BY <1>1, <1>3, <1>4, SumsCongruent
<1> HIDE DEF SA, SR, SC, SD, ea, ec
<1>10. SD = (u - x) * SA
    BY <1>1, <1>6, <1>7, <1>8
<1> DEFINE v == u - x
<1>11. v \in Int /\ SD = v * SA
    BY <1>1, <1>10
<1> HIDE DEF v
<1> DEFINE e == v * ea
<1>12. e \in Int /\ Congruent(SD, e)
  <2>1. Congruent(SA, ea) /\ Congruent(v, v)
      BY <1>5, <1>7, <1>11, CongruentSym, CongruentSelf
  <2>2. Congruent(v * SA, v * ea)
      BY <1>5, <1>7, <1>11, <2>1, CongruentProduct
  <2> QED
      BY <1>5, <1>11, <2>2
<1> HIDE DEF e
<1>13. Congruent(ec, SD)
    BY <1>5, <1>7, <1>9, CongruentTrans
<1>14. Congruent(ec, e)
    BY <1>5, <1>7, <1>12, <1>13, CongruentTrans
<1> QED
    BY <1>14 DEF e, v, ea, ec

\* A polynomial is its value at u and (X - u) times one with a coefficient less, which with
\* it is nought only if the polynomial is.
LEMMA EvalFactor ==
    ASSUME NEW c \in Seq(Scalars), c # <<>>, NEW u \in Scalars
    PROVE  \E q \in Seq(Scalars) :
             /\ Len(q) = Len(c) - 1
             /\ \A x \in Scalars : Congruent(Eval(c, x), Eval(c, u) + (x - u) * Eval(q, x))
             /\ Eval(c, u) = 0 /\ (\A i \in 1 .. Len(q) : q[i] = 0) => \A i \in 1 .. Len(c) : c[i] = 0
<1> DEFINE a == Coef(c)
           l == Len(c)
<1>1. /\ a \in [Nat -> Int] /\ l \in Nat /\ (\A k \in Nat : k >= l => a[k] = 0)
      /\ (\A k \in Nat : k < l => a[k] = c[k + 1])
      /\ u \in Int /\ DOMAIN c = 1 .. l
    BY CoefIs, ScalarsAre, ScalarSeq
<1>2. l # 0
    OBVIOUS
<1> HIDE DEF a, l
<1>3. PICK h : Horner(h, a, l, u)
    BY <1>1, SomeHorner
<1>4. /\ h \in [Nat -> Int] /\ (\A k \in Nat : h[k] = h[k + 1] * u + a[k])
      /\ \A k \in Nat : k >= l => h[k] = 0
    BY <1>3 DEF Horner
<1>5. l - 1 \in Nat
    BY <1>1, <1>2
<1> DEFINE q == [i \in 1 .. l - 1 |-> h[i] % Prime]
<1>6. \A i \in 1 .. l - 1 : h[i] \in Int /\ h[i] % Prime \in Scalars /\ Congruent(h[i], h[i] % Prime)
  <2>1. \A i \in 1 .. l - 1 : h[i] \in Int
      BY <1>4, <1>5
  <2> QED
      BY <2>1, ModIs
<1>7. q \in Seq(Scalars) /\ Len(q) = l - 1 /\ \A i \in 1 .. l - 1 : q[i] = h[i] % Prime
    BY <1>5, <1>6
<1> HIDE DEF q
<1> DEFINE b == Coef(q)
           g == [k \in Nat |-> h[k + 1]]
<1>8. /\ b \in [Nat -> Int] /\ (\A k \in Nat : k >= l - 1 => b[k] = 0)
      /\ \A k \in Nat : k < l - 1 => b[k] = q[k + 1]
    BY <1>7, CoefIs
<1>9. g \in [Nat -> Int] /\ (\A k \in Nat : g[k] = h[k + 1]) /\ Divides(g, h, a, u)
    BY <1>4 DEF Divides
<1> HIDE DEF b, g
<1>10. ASSUME NEW k \in Nat PROVE Congruent(g[k], b[k])
  <2>1. CASE k < l - 1
    <3>1. k + 1 \in 1 .. l - 1
        BY <1>1, <2>1
    <3> QED
        BY <1>6, <1>7, <1>8, <1>9, <2>1, <3>1
  <2>2. CASE ~(k < l - 1)
    <3>1. k >= l - 1 /\ k + 1 >= l /\ k + 1 \in Nat
        BY <1>1, <2>2
    <3>2. g[k] = 0 /\ b[k] = 0
        BY <1>4, <1>8, <1>9, <3>1
    <3> QED
        BY <3>2, CongruentSelf
  <2> QED
      BY <2>1, <2>2
<1>11. ASSUME NEW x \in Scalars
       PROVE  Congruent(Eval(c, x), Eval(c, u) + (x - u) * Eval(q, x))
  <2> DEFINE SA == Sums(a, x)[l]
             SG == Sums(g, x)[l]
             SB == Sums(b, x)[l]
             ec == Eval(c, x)
             eq == Eval(q, x)
             eu == Eval(c, u)
             p == PowersOf(x)[l]
  <2>1. x \in Int
      BY ScalarsAre
  <2>2. SA \in Int /\ SG \in Int /\ SB \in Int /\ p \in Int
      BY <1>1, <1>8, <1>9, <2>1, SumsAre, PowersAre
  <2>3. (x - u) * SG = h[l] * p - h[0] + SA
    <3>1. DividedSums(g, h, a, u, x, l)
        BY <1>1, <1>4, <1>9, <2>1, SumsFactor
    <3> QED
        BY <3>1 DEF DividedSums
  <2>4. Congruent(SG, SB)
      BY <1>1, <1>8, <1>9, <1>10, <2>1, SumsCongruent
  <2>5. h[0] = Sums(a, u)[l]
      BY <1>1, <1>3, HornerSums
  <2>6. Congruent(ec, SA) /\ Congruent(eu, h[0]) /\ ec \in Int /\ eu \in Int
    <3>1. l >= Len(c)
        BY <1>1 DEF l
    <3>2. Congruent(ec, SA) /\ Congruent(eu, Sums(a, u)[l])
        BY <1>1, <3>1, EvalIs DEF a
    <3> QED
        BY <2>5, <3>2, EvalIs, ScalarsAre
  <2>7. Congruent(eq, SB) /\ eq \in Int
    <3>1. l >= Len(q)
        BY <1>1, <1>7
    <3>2. Congruent(eq, SB)
        BY <1>1, <1>7, <3>1, EvalIs DEF b
    <3> QED
        BY <1>7, <3>2, EvalIs, ScalarsAre
  <2> HIDE DEF SA, SG, SB, ec, eq, eu, p
  <2> DEFINE v == x - u
             d == v * SG
             e == v * eq
             z == h[0]
  <2>8. v \in Int /\ d \in Int /\ e \in Int /\ z \in Int /\ SA = z + d
    <3>1. h[l] = 0 /\ h[0] \in Int
        BY <1>1, <1>4
    <3> QED
        BY <1>1, <2>1, <2>2, <2>3, <2>7, <3>1
  <2>9. Congruent(d, e)
    <3> HIDE DEF v
    <3>1. Congruent(SB, eq) /\ Congruent(v, v)
        BY <2>2, <2>7, <2>8, CongruentSym, CongruentSelf
    <3>2. Congruent(SG, eq)
        BY <2>2, <2>4, <2>7, <3>1, CongruentTrans
    <3> QED
        BY <2>2, <2>7, <2>8, <3>1, <3>2, CongruentProduct
  <2> HIDE DEF v, d, e, z
  <2>10. Congruent(z, eu)
      BY <2>6, <2>8, CongruentSym DEF z
  <2> DEFINE f == z + d
             r == eu + e
  <2>11. f \in Int /\ r \in Int /\ Congruent(f, r) /\ Congruent(ec, f)
      BY <2>6, <2>8, <2>9, <2>10, CongruentSum
  <2> HIDE DEF f, r
  <2>12. Congruent(ec, r)
      BY <2>6, <2>11, CongruentTrans
  <2> QED
      BY <2>12 DEF r, e, v, ec, eq, eu
<1>12. ASSUME Eval(c, u) = 0, \A i \in 1 .. Len(q) : q[i] = 0
       PROVE  \A i \in 1 .. l : c[i] = 0
  <2>1. ASSUME NEW k \in Nat PROVE Congruent(h[k], 0)
    <3>1. CASE k = 0
      <4>1. h[0] = Sums(a, u)[l]
          BY <1>1, <1>3, HornerSums
      <4>2. Congruent(0, h[0])
          BY <1>1, <1>12, <4>1, EvalIs DEF a, l
      <4> QED
          BY <1>4, <3>1, <4>2, CongruentSym
    <3>2. CASE k # 0
      <4>1. k - 1 \in Nat /\ (k - 1) + 1 = k
          BY <3>2
      <4>2. g[k - 1] = h[k]
          BY <1>9, <4>1
      <4>3. b[k - 1] = 0
        <5>1. CASE k - 1 < l - 1
          <6>1. k \in 1 .. l - 1
              BY <1>1, <3>2, <5>1
          <6> QED
              BY <1>7, <1>8, <1>12, <4>1, <5>1, <6>1
        <5>2. CASE ~(k - 1 < l - 1)
            BY <1>1, <1>8, <4>1, <5>2
        <5> QED
            BY <5>1, <5>2
      <4> QED
          BY <1>10, <4>1, <4>2, <4>3
    <3> QED
        BY <3>1, <3>2
  <2> SUFFICES ASSUME NEW i \in 1 .. l PROVE c[i] = 0
      OBVIOUS
  <2> DEFINE k == i - 1
  <2>2. k \in Nat /\ k + 1 = i /\ k < l /\ k + 1 \in Nat
      BY <1>1
  <2> HIDE DEF k
  <2>3. a[k] = c[i] /\ c[i] \in Scalars /\ a[k] \in Int /\ h[k] = h[k + 1] * u + a[k]
      BY <1>1, <1>4, <2>2, ScalarSeq DEF l
  <2> DEFINE s == h[k]
             t == h[k + 1]
  <2>4. s \in Int /\ t \in Int /\ Congruent(s, 0) /\ Congruent(t, 0) /\ s = t * u + a[k]
      BY <1>4, <2>1, <2>2, <2>3
  <2> HIDE DEF s, t
  <2>5. PICK m \in Int : s - 0 = m * Prime
      BY <2>4 DEF Congruent
  <2>6. PICK n \in Int : t - 0 = n * Prime
      BY <2>4 DEF Congruent
  <2>7. a[k] - 0 = (m - n * u) * Prime
    <3>1. Prime \in Int /\ s = m * Prime /\ t = n * Prime
        BY <2>4, <2>5, <2>6, PrimeIs
    <3>2. t * u = (n * u) * Prime /\ n * u \in Int
        BY <1>1, <3>1
    <3> DEFINE w == n * u
               v == t * u
    <3>3. w \in Int /\ v = w * Prime /\ s = v + a[k] /\ a[k] \in Int /\ v \in Int
        BY <1>1, <2>3, <2>4, <3>2
    <3> HIDE DEF v, w
    <3>4. a[k] - 0 = (m - w) * Prime
        BY <3>1, <3>3
    <3> QED
        BY <3>4 DEF w
  <2>8. Congruent(a[k], 0)
    <3>1. m - n * u \in Int
        BY <1>1
    <3> QED
        BY <2>7, <3>1 DEF Congruent
  <2> QED
      BY <2>3, <2>8, ScalarsDiffer, ScalarsAre
<1> QED
    BY <1>7, <1>11, <1>12 DEF l

-----------------------------------------------------------------------------
(* Roots, and polynomials that agree *)

\* new drops zeros only.
LEMMA TrimIs ==
    ASSUME NEW c \in Seq(Scalars)
    PROVE  /\ Trim(c) \in Seq(Scalars) /\ Len(Trim(c)) <= Len(c)
           /\ Len(Trim(c)) # 0 => Trim(c)[Len(Trim(c))] # 0
           /\ \A k \in Nat : Coef(Trim(c))[k] = Coef(c)[k]
<1> DEFINE l == Len(c)
           Ends(n) == (n # 0 => c[n] # 0) /\ \A i \in n + 1 .. l : c[i] = 0
           T == {n \in 0 .. l : \A i \in n + 1 .. l : c[i] = 0}
<1>1. l \in Nat /\ DOMAIN c = 1 .. l /\ \A i \in 1 .. l : c[i] \in Scalars
    BY ScalarSeq
<1> HIDE DEF l
<1>2. \E n \in 0 .. l : Ends(n)
  <2>1. T \subseteq Nat /\ l \in T
      BY <1>1
  <2>2. PICK n \in T : \A m \in T : n <= m
    <3> HIDE DEF T
    <3> QED
        BY <2>1, LeastNatural
  <2>3. ASSUME n # 0 PROVE c[n] # 0
    <3>1. n - 1 \notin T /\ n - 1 \in 0 .. l /\ n \in 0 .. l
        BY <1>1, <2>1, <2>2, <2>3
    <3>2. PICK i \in (n - 1) + 1 .. l : c[i] # 0
        BY <3>1
    <3>3. i = n \/ i \in n + 1 .. l
        BY <1>1, <3>1
    <3> QED
        BY <2>2, <3>2, <3>3
  <2> QED
      BY <2>2, <2>3
<1> DEFINE n == CHOOSE m \in 0 .. l : Ends(m)
           t == SubSeq(c, 1, n)
<1>3. Trim(c) = t
    BY DEF Trim, l
<1>4. n \in 0 .. l /\ Ends(n)
    BY <1>2
<1> HIDE DEF n
<1>5. t \in Seq(Scalars) /\ Len(t) = n /\ \A i \in 1 .. n : t[i] = c[i]
    BY <1>1, <1>4 DEF l
<1> HIDE DEF t
<1>6. ASSUME NEW k \in Nat PROVE Coef(t)[k] = Coef(c)[k]
  <2>1. CASE k < n
    <3>1. k + 1 \in 1 .. n /\ k < l
        BY <1>1, <1>4, <2>1
    <3> QED
        BY <1>5, <2>1, <3>1 DEF Coef, l
  <2>2. CASE ~(k < n) /\ k < l
    <3>1. k + 1 \in n + 1 .. l
        BY <1>1, <1>4, <2>2
    <3> QED
        BY <1>4, <1>5, <2>2, <3>1 DEF Coef, l
  <2>3. CASE ~(k < n) /\ ~(k < l)
      BY <1>5, <2>3 DEF Coef, l
  <2> QED
      BY <1>1, <1>4, <2>1, <2>2, <2>3
<1>7. n \in Nat /\ n <= l /\ (n # 0 => t[n] # 0)
    BY <1>1, <1>4, <1>5
<1> QED
    BY <1>3, <1>5, <1>6, <1>7 DEF l

\* The same coefficients have the same values.
LEMMA SameCoefsEval ==
    ASSUME NEW c \in Seq(Scalars), NEW d \in Seq(Scalars), \A k \in Nat : Coef(c)[k] = Coef(d)[k],
           NEW x \in Scalars
    PROVE  Eval(c, x) = Eval(d, x)
<1>1. Coef(c) = Coef(d)
    BY CoefIs
<1>2. Len(c) \in Nat /\ Len(d) \in Nat
    BY CoefIs
<1> DEFINE n == Len(c) + Len(d)
           s == Sums(Coef(c), x)[n]
           u == Eval(c, x)
           v == Eval(d, x)
<1>3. n \in Nat /\ n >= Len(c) /\ n >= Len(d)
    BY <1>2
<1>4. Congruent(u, s) /\ Congruent(v, s) /\ u \in Scalars /\ v \in Scalars
    BY <1>1, <1>3, EvalIs
<1>5. s \in Int
  <2>1. Coef(c) \in [Nat -> Int] /\ x \in Int
      BY CoefIs, ScalarsAre
  <2>2. Sums(Coef(c), x) \in [Nat -> Int]
      BY <2>1, SumsAre
  <2> QED
      BY <1>3, <2>2
<1> HIDE DEF s, u, v
<1>6. Congruent(s, s)
    BY <1>5, CongruentSelf
<1>7. u = v
    BY <1>4, <1>5, <1>6, SameScalar
<1> QED
    BY <1>7 DEF u, v

\* Polynomials without a zero at the end are the same if their coefficients are.
LEMMA SameCoefs ==
    ASSUME NEW c \in Seq(Scalars), NEW d \in Seq(Scalars), \A k \in Nat : Coef(c)[k] = Coef(d)[k],
           Len(c) # 0 => c[Len(c)] # 0, Len(d) # 0 => d[Len(d)] # 0
    PROVE  c = d
<1>1. ASSUME NEW a \in Seq(Scalars), NEW b \in Seq(Scalars), \A k \in Nat : Coef(a)[k] = Coef(b)[k],
             Len(a) # 0 => a[Len(a)] # 0
      PROVE  Len(a) <= Len(b)
  <2>1. Len(a) \in Nat /\ Len(b) \in Nat
      BY CoefIs
  <2>2. SUFFICES ASSUME Len(a) > Len(b) PROVE FALSE
      BY <2>1
  <2>3. Len(a) - 1 \in Nat /\ Len(a) - 1 < Len(a) /\ Len(a) - 1 >= Len(b) /\ Len(a) # 0
      BY <2>1, <2>2
  <2>4. Coef(a)[Len(a) - 1] = a[(Len(a) - 1) + 1] /\ Coef(b)[Len(a) - 1] = 0
      BY <2>3, CoefIs
  <2>5. (Len(a) - 1) + 1 = Len(a)
      BY <2>1
  <2> QED
      BY <1>1, <2>3, <2>4, <2>5
<1>2. Len(c) <= Len(d)
    BY <1>1
<1>3. Len(d) <= Len(c)
    BY <1>1
<1>4. Len(c) \in Nat /\ Len(d) \in Nat
    BY CoefIs
<1>5. Len(c) = Len(d)
    BY <1>2, <1>3, <1>4
<1>6. ASSUME NEW i \in 1 .. Len(c) PROVE c[i] = d[i]
  <2>1. i - 1 \in Nat /\ i - 1 < Len(c) /\ i - 1 < Len(d) /\ (i - 1) + 1 = i
      BY <1>4, <1>5
  <2>2. Coef(c)[i - 1] = c[(i - 1) + 1] /\ Coef(d)[i - 1] = d[(i - 1) + 1]
      BY <2>1, CoefIs
  <2> QED
      BY <2>1, <2>2
<1> QED
    BY <1>5, <1>6

\* A polynomial with as many roots as coefficients is nought.
LEMMA ManyRoots ==
    ASSUME NEW c \in Seq(Scalars), NEW R \in SUBSET Scalars, Cardinality(R) >= Len(c),
           \A x \in R : Eval(c, x) = 0
    PROVE  \A i \in 1 .. Len(c) : c[i] = 0
<1> DEFINE Nought(n) ==
               \A d \in Seq(Scalars), S \in SUBSET Scalars :
                   Len(d) = n /\ Cardinality(S) >= n /\ (\A x \in S : Eval(d, x) = 0) =>
                       \A i \in 1 .. n : d[i] = 0
           T == {n \in Nat : Nought(n)}
<1>1. 0 \in T
    OBVIOUS
<1>2. ASSUME NEW n \in Nat, n \in T PROVE n + 1 \in T
  <2>1. SUFFICES ASSUME NEW d \in Seq(Scalars), NEW S \in SUBSET Scalars, Len(d) = n + 1,
                        Cardinality(S) >= n + 1, \A x \in S : Eval(d, x) = 0
                 PROVE  \A i \in 1 .. n + 1 : d[i] = 0
      OBVIOUS
  <2>2. IsFiniteSet(Scalars) /\ IsFiniteSet(S) /\ Cardinality(S) \in Nat
    <3>1. IsFiniteSet(Scalars)
        BY PrimeIs, FS_Interval DEF Scalars
    <3>2. IsFiniteSet(S)
        BY <3>1, FS_Subset
    <3> QED
        BY <3>1, <3>2, FS_CardinalityType
  <2>3. S # {}
    <3>1. Cardinality(S) # 0
        BY <2>1, <2>2
    <3> QED
        BY <3>1, FS_EmptySet
  <2>4. PICK u \in S : TRUE
      BY <2>3
  <2>5. u \in Scalars /\ Eval(d, u) = 0 /\ d # <<>>
      BY <2>1
  <2>6. PICK q \in Seq(Scalars) :
             /\ Len(q) = Len(d) - 1
             /\ \A x \in Scalars : Congruent(Eval(d, x), Eval(d, u) + (x - u) * Eval(q, x))
             /\ Eval(d, u) = 0 /\ (\A i \in 1 .. Len(q) : q[i] = 0) => \A i \in 1 .. Len(d) : d[i] = 0
      BY <2>5, EvalFactor
  <2>7. Len(q) = n
      BY <2>1, <2>6
  <2>8. Cardinality(S \ {u}) >= n /\ S \ {u} \in SUBSET Scalars
    <3>1. Cardinality(S \ {u}) = Cardinality(S) - 1
        BY <2>2, FS_RemoveElement
    <3> QED
        BY <2>1, <2>2, <3>1
  <2>9. ASSUME NEW x \in S \ {u} PROVE Eval(q, x) = 0
    <3> DEFINE e == Eval(q, x)
               v == x - u
    <3>1. e \in Scalars /\ e \in Int /\ x \in Int /\ u \in Int /\ x \in Scalars /\ v \in Int
      <4>1. x \in Scalars
          OBVIOUS
      <4>2. e \in Scalars
          BY <4>1, EvalIs
      <4>3. x \in Int /\ u \in Int /\ e \in Int
          BY <2>5, <4>1, <4>2, ScalarsAre
      <4> QED
          BY <4>1, <4>2, <4>3
    <3>2. Congruent(0, 0 + v * e)
        BY <2>1, <2>5, <2>6, <3>1
    <3>3. ~Congruent(v, 0)
      <4>1. SUFFICES ASSUME Congruent(v, 0) PROVE FALSE
          OBVIOUS
      <4>2. PICK k \in Int : v - 0 = k * Prime
          BY <4>1 DEF Congruent
      <4>3. x - u = k * Prime
          BY <3>1, <4>2
      <4>4. Congruent(x, u)
          BY <4>3 DEF Congruent
      <4>5. x = u
          BY <2>5, <3>1, <4>4, ScalarsDiffer
      <4> QED
          BY <4>5
    <3> HIDE DEF v, e
    <3>4. v * e \in Int /\ 0 + v * e = v * e
        BY <3>1
    <3>5. Congruent(v * e, 0)
      <4> DEFINE w == v * e
      <4>1. w \in Int /\ Congruent(0, w)
          BY <3>2, <3>4
      <4> HIDE DEF w
      <4>2. Congruent(w, 0)
          BY <4>1, CongruentSym
      <4> QED
          BY <4>2 DEF w
    <3>6. Congruent(e, 0)
        BY <3>1, <3>3, <3>5, Euclid
    <3> QED
        BY <3>1, <3>6, ScalarsDiffer, ScalarsAre DEF e
  <2>10. \A i \in 1 .. n : q[i] = 0
      BY <1>2, <2>7, <2>8, <2>9
  <2> QED
      BY <2>1, <2>5, <2>6, <2>7, <2>10
<1> HIDE DEF T
<1>3. Len(c) \in Nat
    BY CoefIs
<1>4. Len(c) \in T
    BY <1>1, <1>2, <1>3, Induct
<1> QED
    BY <1>4 DEF T

\* Polynomials with the same values at as many points as they have coefficients are the same.
LEMMA SameValues ==
    ASSUME NEW c \in Seq(Scalars), NEW d \in Seq(Scalars), NEW R \in SUBSET Scalars,
           Cardinality(R) >= Len(c), Cardinality(R) >= Len(d), \A x \in R : Eval(c, x) = Eval(d, x)
    PROVE  \A k \in Nat : Coef(c)[k] = Coef(d)[k]
<1> DEFINE a == Coef(c)
           b == Coef(d)
           n == IF Len(c) > Len(d) THEN Len(c) ELSE Len(d)
           e == [i \in 1 .. n |-> Minus(a[i - 1], b[i - 1])]
<1>1. /\ a \in [Nat -> Int] /\ b \in [Nat -> Int] /\ n \in Nat
      /\ Cardinality(R) >= n
      /\ \A k \in Nat : k >= n => a[k] = 0 /\ b[k] = 0
  <2>1. Len(c) \in Nat /\ Len(d) \in Nat
      BY CoefIs
  <2> QED
      BY <2>1, CoefIs
<1>2. ASSUME NEW k \in Nat PROVE a[k] \in Scalars /\ b[k] \in Scalars
  <2>1. ASSUME NEW f \in Seq(Scalars) PROVE Coef(f)[k] \in Scalars
    <3>1. CASE k < Len(f)
      <4>1. k + 1 \in 1 .. Len(f) /\ Coef(f)[k] = f[k + 1]
          BY <3>1, CoefIs
      <4> QED
          BY <4>1, ScalarSeq
    <3>2. CASE ~(k < Len(f))
      <4>1. k >= Len(f)
          BY <3>2, CoefIs
      <4> QED
          BY <4>1, CoefIs, ScalarsAre
    <3> QED
        BY <3>1, <3>2
  <2> QED
      BY <2>1
<1> HIDE DEF a, b, n
<1>3. ASSUME NEW k \in Nat PROVE Minus(a[k], b[k]) \in Scalars /\ Congruent(Minus(a[k], b[k]), a[k] - b[k])
    BY <1>1, OperationsAre
<1>4. e \in Seq(Scalars) /\ Len(e) = n /\ \A i \in 1 .. n : e[i] = Minus(a[i - 1], b[i - 1])
  <2>1. \A i \in 1 .. n : Minus(a[i - 1], b[i - 1]) \in Scalars
    <3>1. \A i \in 1 .. n : i - 1 \in Nat
        BY <1>1
    <3> QED
        BY <1>3, <3>1
  <2> QED
      BY <1>1, <2>1
<1> HIDE DEF e
<1>5. ASSUME NEW k \in Nat PROVE Congruent(Coef(e)[k], 1 * a[k] + (-1) * b[k])
  <2>1. a[k] \in Int /\ b[k] \in Int /\ 1 * a[k] + (-1) * b[k] = a[k] - b[k]
      BY <1>1
  <2>2. CASE k < n
    <3>1. k + 1 \in 1 .. n /\ (k + 1) - 1 = k /\ Coef(e)[k] = e[k + 1]
      <4>1. k < Len(e)
          BY <1>4, <2>2
      <4>2. Coef(e)[k] = e[k + 1]
          BY <1>4, <4>1, CoefIs
      <4> QED
          BY <1>1, <2>2, <4>2
    <3> QED
        BY <1>3, <1>4, <2>1, <3>1
  <2>3. CASE ~(k < n)
    <3>1. k >= Len(e) /\ k >= n
        BY <1>1, <1>4, <2>3
    <3>2. Coef(e)[k] = 0 /\ a[k] = 0 /\ b[k] = 0
        BY <1>1, <1>4, <3>1, CoefIs
    <3> QED
        BY <2>1, <3>2, CongruentSelf
  <2> QED
      BY <2>2, <2>3
<1>6. Combines(e, 1, c, -1, d)
    BY <1>5 DEF Combines, a, b
<1>7. ASSUME NEW x \in R PROVE Eval(e, x) = 0
  <2> DEFINE u == Eval(c, x)
             z == Eval(e, x)
  <2>1. x \in Scalars /\ 1 \in Int /\ -1 \in Int
      OBVIOUS
  <2>2. Congruent(Eval(e, x), 1 * Eval(c, x) + (-1) * Eval(d, x))
      BY <1>4, <1>6, <2>1, EvalLinear
  <2>3. Eval(d, x) = u /\ u \in Int /\ z \in Scalars
      BY <1>4, <2>1, EvalIs, ScalarsAre
  <2>4. Congruent(z, 1 * u + (-1) * u)
      BY <2>2, <2>3
  <2> HIDE DEF u, z
  <2>5. 1 * u + (-1) * u = 0
      BY <2>3
  <2> QED
      BY <2>3, <2>4, <2>5, ScalarsDiffer, ScalarsAre DEF z
<1>8. \A i \in 1 .. n : e[i] = 0
    BY <1>1, <1>4, <1>7, ManyRoots
<1> SUFFICES ASSUME NEW k \in Nat PROVE a[k] = b[k]
    BY DEF a, b
<1>9. CASE k < n
  <2>1. k + 1 \in 1 .. n /\ (k + 1) - 1 = k
      BY <1>1, <1>9
  <2>2. Minus(a[k], b[k]) = 0
      BY <1>4, <1>8, <2>1
  <2> DEFINE s == a[k]
             t == b[k]
  <2>3. s \in Scalars /\ t \in Scalars /\ s \in Int /\ t \in Int /\ Congruent(0, s - t)
      BY <1>2, <1>3, <2>2, ScalarsAre
  <2> HIDE DEF s, t
  <2>4. PICK m \in Int : 0 - (s - t) = m * Prime
      BY <2>3 DEF Congruent
  <2>5. t - s = m * Prime
      BY <2>3, <2>4
  <2>6. Congruent(t, s)
      BY <2>5 DEF Congruent
  <2> QED
      BY <2>3, <2>6, ScalarsDiffer DEF s, t
<1>10. CASE ~(k < n)
  <2>1. k >= n
      BY <1>1, <1>10
  <2> QED
      BY <1>1, <2>1
<1> QED
    BY <1>9, <1>10

\* The product of a polynomial and (u - X)
LEMMA MulPolyIs ==
    ASSUME NEW p \in Seq(Scalars), NEW u \in Scalars
    PROVE  /\ MulPoly(p, u) \in Seq(Scalars) /\ Len(MulPoly(p, u)) = Len(p) + 1
           /\ \A x \in Scalars : Congruent(Eval(MulPoly(p, u), x), (u - x) * Eval(p, x))
<1> DEFINE n == Len(p)
           a == Coef(p)
           m == MulPoly(p, u)
           Item(l) == Minus(IF l <= n THEN Times(p[l], u) ELSE 0, IF l > 1 THEN p[l - 1] ELSE 0)
<1>1. /\ n \in Nat /\ u \in Int /\ a \in [Nat -> Int] /\ (\A k \in Nat : k >= n => a[k] = 0)
      /\ (\A k \in Nat : k < n => a[k] = p[k + 1]) /\ \A i \in 1 .. n : p[i] \in Scalars /\ p[i] \in Int
    BY CoefIs, ScalarSeq, ScalarsAre
<1>2. m = [l \in 1 .. n + 1 |-> Item(l)]
    BY DEF MulPoly
<1> HIDE DEF n, a, m
<1>3. ASSUME NEW l \in 1 .. n + 1
      PROVE  Item(l) \in Scalars /\ Congruent(Item(l), u * a[l - 1] - (IF l > 1 THEN a[l - 2] ELSE 0))
  <2> DEFINE s == IF l <= n THEN Times(p[l], u) ELSE 0
             t == IF l > 1 THEN p[l - 1] ELSE 0
             A == a[l - 1]
             B == IF l > 1 THEN a[l - 2] ELSE 0
  <2>1. t = B /\ t \in Int
    <3>1. CASE l > 1
      <4>1. l - 2 \in Nat /\ l - 2 < n /\ (l - 2) + 1 = l - 1 /\ l - 1 \in 1 .. n
          BY <1>1, <3>1
      <4> QED
          BY <1>1, <3>1, <4>1
    <3> QED
        BY <1>1, <3>1
  <2>2. s \in Int /\ A \in Int /\ Congruent(s, u * A)
    <3>1. l - 1 \in Nat /\ (l - 1) + 1 = l /\ l \in Int
        BY <1>1
    <3>2. CASE l <= n
      <4>1. l \in 1 .. n /\ l - 1 < n
          BY <1>1, <3>1, <3>2
      <4>2. A = p[l] /\ p[l] \in Int
          BY <1>1, <3>1, <4>1
      <4>3. Times(p[l], u) \in Scalars /\ Congruent(Times(p[l], u), p[l] * u)
          BY <1>1, <4>2, OperationsAre
      <4>4. p[l] * u = u * A
          BY <1>1, <4>2
      <4> QED
          BY <3>2, <4>2, <4>3, <4>4, ScalarsAre
    <3>3. CASE ~(l <= n)
      <4>1. l - 1 >= n
          BY <1>1, <3>1, <3>3
      <4>2. A = 0 /\ u * A = 0
          BY <1>1, <3>1, <4>1
      <4> QED
          BY <3>3, <4>2, CongruentSelf
    <3> QED
        BY <3>2, <3>3
  <2>3. Item(l) = Minus(s, t)
      OBVIOUS
  <2> HIDE DEF s, t, Item
  <2>4. Minus(s, t) \in Scalars /\ Congruent(Minus(s, t), s - t)
      BY <2>1, <2>2, OperationsAre
  <2> DEFINE r == Minus(s, t)
             v == u * A
             f == s - t
             g == v - B
  <2>5. v \in Int /\ B \in Int /\ Congruent(t, B) /\ r \in Int /\ f \in Int /\ g \in Int
    <3>1. v \in Int
        BY <1>1, <2>2
    <3>2. B \in Int /\ Congruent(t, B)
        BY <2>1, CongruentSelf
    <3>3. r \in Int
        BY <2>4, ScalarsAre
    <3> HIDE DEF v, B, r
    <3> QED
        BY <2>1, <2>2, <3>1, <3>2, <3>3
  <2>6. Congruent(r, f) /\ Congruent(s, v) /\ r \in Scalars
      BY <2>2, <2>4
  <2> HIDE DEF v, A, B, r
  <2>7. Congruent(f, g)
      BY <2>1, <2>2, <2>5, <2>6, CongruentSum
  <2> HIDE DEF f, g
  <2>8. Congruent(r, g)
      BY <2>5, <2>6, <2>7, CongruentTrans
  <2> QED
      BY <2>3, <2>6, <2>8 DEF g, r, v, A, B
<1> HIDE DEF Item
<1>4. m \in Seq(Scalars) /\ Len(m) = n + 1 /\ \A i \in 1 .. n + 1 : m[i] = Item(i)
  <2>1. \A l \in 1 .. n + 1 : Item(l) \in Scalars
      BY <1>3
  <2>2. n + 1 \in Nat
      BY <1>1
  <2> DEFINE Top == n + 1
  <2>3. Top \in Nat /\ m = [l \in 1 .. Top |-> Item(l)] /\ \A l \in 1 .. Top : Item(l) \in Scalars
      BY <1>2, <2>1, <2>2
  <2> HIDE DEF Top
  <2>4. m \in Seq(Scalars) /\ Len(m) = Top /\ \A i \in 1 .. Top : m[i] = Item(i)
      BY <2>3
  <2> QED
      BY <2>4 DEF Top
<1>5. ASSUME NEW k \in Nat
      PROVE  Congruent(Coef(m)[k], u * a[k] - (IF k > 0 THEN a[k - 1] ELSE 0))
  <2>1. CASE k < n + 1
    <3>1. k + 1 \in 1 .. n + 1 /\ (k + 1) - 1 = k /\ (k + 1) - 2 = k - 1 /\ (k + 1 > 1 <=> k > 0)
        BY <1>1, <2>1
    <3>2. Coef(m)[k] = m[k + 1]
        BY <1>4, <2>1, CoefIs
    <3>3. Congruent(Item(k + 1), u * a[(k + 1) - 1] - (IF k + 1 > 1 THEN a[(k + 1) - 2] ELSE 0))
        BY <1>3, <3>1
    <3> QED
        BY <1>4, <3>1, <3>2, <3>3
  <2>2. CASE ~(k < n + 1)
    <3>1. k >= n + 1 /\ k >= n /\ k - 1 \in Nat /\ k - 1 >= n /\ k > 0
        BY <1>1, <2>2
    <3>2. Coef(m)[k] = 0 /\ a[k] = 0 /\ a[k - 1] = 0
        BY <1>1, <1>4, <3>1, CoefIs
    <3>3. u * 0 - 0 = 0
        BY <1>1
    <3> QED
        BY <3>1, <3>2, <3>3, CongruentSelf
  <2> QED
      BY <2>1, <2>2
<1>6. Shifts(m, p, u)
  <2>1. Congruent(Coef(m)[0], u * a[0])
    <3>1. u * a[0] - 0 = u * a[0] /\ ~(0 > 0)
        BY <1>1
    <3> QED
        BY <1>5, <3>1
  <2>2. ASSUME NEW k \in Nat PROVE Congruent(Coef(m)[k + 1], u * a[k + 1] - a[k])
    <3>1. k + 1 \in Nat /\ k + 1 > 0 /\ (k + 1) - 1 = k
        OBVIOUS
    <3>2. Congruent(Coef(m)[k + 1], u * a[k + 1] - (IF k + 1 > 0 THEN a[(k + 1) - 1] ELSE 0))
        BY <1>5, <3>1
    <3> QED
        BY <3>1, <3>2
  <2> QED
      BY <2>1, <2>2 DEF Shifts, a
<1>7. \A x \in Scalars : Congruent(Eval(m, x), (u - x) * Eval(p, x))
    BY <1>1, <1>4, <1>6, EvalShift
<1> QED
    BY <1>4, <1>7 DEF m, n

-----------------------------------------------------------------------------
(* Interpolation *)

\* The product with an inverse, undone
LEMMA InverseUndone ==
    ASSUME NEW a \in Scalars, NEW b \in Scalars, a # b
    PROVE  /\ Minus(b, a) \in Scalars \ {0} /\ Invert(Minus(b, a)) \in Scalars
           /\ Congruent((b - a) * Invert(Minus(b, a)), 1)
<1> DEFINE d == Minus(b, a)
           e == b - a
<1>1. a \in Int /\ b \in Int /\ e \in Int
    BY ScalarsAre
<1>2. d \in Scalars /\ Congruent(d, e)
    BY <1>1, OperationsAre
<1>3. d # 0
  <2>1. SUFFICES ASSUME d = 0 PROVE FALSE
      OBVIOUS
  <2>2. PICK k \in Int : 0 - e = k * Prime
      BY <1>2, <2>1 DEF Congruent
  <2>3. a - b = k * Prime
      BY <1>1, <2>2
  <2>4. Congruent(a, b)
      BY <2>3 DEF Congruent
  <2> QED
      BY <2>4, ScalarsDiffer
<1> HIDE DEF d, e
<1> DEFINE i == Invert(d)
<1>4. i \in Scalars /\ Times(d, i) = 1 /\ i \in Int /\ d \in Int
    BY <1>2, <1>3, InverseIs, ScalarsAre
<1> HIDE DEF i
<1>5. Congruent(1, d * i)
    BY <1>4, OperationsAre
<1> DEFINE p == d * i
           q == e * i
<1>6. p \in Int /\ q \in Int /\ Congruent(1, p)
    BY <1>1, <1>4, <1>5 DEF e
<1>7. Congruent(p, q)
    BY <1>1, <1>2, <1>4, CongruentSelf, CongruentProduct
<1> HIDE DEF p, q
<1>8. Congruent(q, 1)
    BY <1>6, <1>7, CongruentTrans, CongruentSym
<1> QED
    BY <1>2, <1>3, <1>4, <1>8 DEF q, e, i, d

\* (b - a) times the inverse of b - a times the difference of two is the difference.
LEMMA Undo ==
    ASSUME NEW a \in Scalars, NEW b \in Scalars, a # b, NEW u \in Int, NEW v \in Int,
           NEW r \in Int, Congruent(r, Invert(Minus(b, a)) * u + (-Invert(Minus(b, a))) * v)
    PROVE  Congruent((b - a) * r, u - v)
<1> DEFINE i == Invert(Minus(b, a))
           d == b - a
           e == i * u + (-i) * v
           w == u - v
<1>1. i \in Int /\ Congruent(d * i, 1) /\ d \in Int
  <2>1. a \in Int /\ b \in Int
      BY ScalarsAre
  <2>2. i \in Scalars /\ Congruent(d * i, 1)
      BY InverseUndone
  <2>3. d \in Int
      BY <2>1
  <2> QED
      BY <2>2, <2>3, ScalarsAre
<1> HIDE DEF i, d
<1>2. w \in Int /\ e = i * w /\ e \in Int
    BY <1>1
<1>3. Congruent(r, e)
    BY DEF i
<1> HIDE DEF e, w
<1>4. Congruent(d * r, d * e)
    BY <1>1, <1>2, <1>3, CongruentSelf, CongruentProduct
<1> DEFINE p == d * i
           s == d * r
           t == d * e
           o == p * w
<1>5. t = o /\ s \in Int /\ t \in Int /\ p \in Int /\ o \in Int
    BY <1>1, <1>2
<1>6. Congruent(s, t) /\ Congruent(p, 1)
    BY <1>1, <1>4
<1>7. Congruent(p * w, 1 * w)
  <2> HIDE DEF p
  <2> QED
      BY <1>2, <1>5, <1>6, CongruentSelf, CongruentProduct
<1>8. Congruent(o, w)
  <2>1. 1 * w = w
      BY <1>2
  <2> QED
      BY <1>7, <2>1
<1> HIDE DEF p, s, t, o
<1>9. Congruent(s, w)
    BY <1>2, <1>5, <1>6, <1>8, CongruentTrans
<1> QED
    BY <1>9 DEF s, w, d

\* What a step of interpolate makes of p, which goes through a and all up to b, and of q
\* through all after a and b
Joined(p, q, a, b) ==
    LET up == MulPoly(p, b)
        down == MulPoly(q, a)
    IN  [l \in 1 .. Len(up) |-> Times(Minus(up[l], down[l]), Invert(Minus(b, a)))]

\* It goes through all up to b, and its values are those that make it so.
LEMMA JoinedIs ==
    ASSUME NEW p \in Seq(Scalars), NEW q \in Seq(Scalars), Len(p) = Len(q),
           NEW a \in Scalars, NEW b \in Scalars, a # b
    PROVE  /\ Joined(p, q, a, b) \in Seq(Scalars) /\ Len(Joined(p, q, a, b)) = Len(p) + 1
           /\ \A x \in Scalars :
                Congruent((b - a) * Eval(Joined(p, q, a, b), x), (b - x) * Eval(p, x) - (a - x) * Eval(q, x))
<1> DEFINE up == MulPoly(p, b)
           down == MulPoly(q, a)
           i == Invert(Minus(b, a))
           n == Len(p) + 1
           Item(l) == Times(Minus(up[l], down[l]), i)
           r == Joined(p, q, a, b)
<1>1. /\ up \in Seq(Scalars) /\ Len(up) = n /\ down \in Seq(Scalars) /\ Len(down) = n
      /\ \A x \in Scalars : /\ Congruent(Eval(up, x), (b - x) * Eval(p, x))
                            /\ Congruent(Eval(down, x), (a - x) * Eval(q, x))
    BY MulPolyIs
<1>2. i \in Scalars /\ i \in Int /\ a \in Int /\ b \in Int
    BY InverseUndone, ScalarsAre
<1>3. n \in Nat
    BY ScalarSeq
<1>4. r = [l \in 1 .. n |-> Item(l)]
    BY <1>1 DEF Joined
<1> HIDE DEF up, down, i, n, r
<1>5. ASSUME NEW l \in 1 .. n
      PROVE  Item(l) \in Scalars /\ Congruent(Item(l), i * up[l] + (-i) * down[l])
  <2> DEFINE s == up[l]
             t == down[l]
             d == Minus(s, t)
             f == s - t
             o == Times(d, i)
  <2>1. s \in Int /\ t \in Int
    <3>1. l \in 1 .. Len(up) /\ l \in 1 .. Len(down)
        BY <1>1
    <3> QED
        BY <1>1, <3>1, ScalarSeq
  <2> HIDE DEF s, t
  <2>2. d \in Int /\ f \in Int /\ Congruent(d, f)
    <3>1. d \in Scalars /\ Congruent(d, f)
        BY <2>1, OperationsAre
    <3>2. f \in Int
        BY <2>1
    <3> QED
        BY <3>1, <3>2, ScalarsAre
  <2>3. o \in Scalars /\ Congruent(o, d * i) /\ o \in Int
    <3> HIDE DEF d
    <3> QED
        BY <1>2, <2>2, OperationsAre, ScalarsAre
  <2> HIDE DEF d, o
  <2> DEFINE g == d * i
             e == i * s + (-i) * t
  <2>4. g \in Int /\ e \in Int /\ e = f * i /\ Congruent(o, g)
      BY <1>2, <2>1, <2>2, <2>3
  <2>5. Congruent(g, f * i)
    <3> HIDE DEF f
    <3> QED
        BY <1>2, <2>2, CongruentSelf, CongruentProduct
  <2>6. Congruent(g, e)
      BY <2>4, <2>5
  <2> HIDE DEF g, e
  <2>7. Congruent(o, e)
      BY <2>3, <2>4, <2>6, CongruentTrans
  <2> QED
      BY <2>3, <2>7 DEF o, d, e, s, t
<1>6. r \in Seq(Scalars) /\ Len(r) = n /\ \A l \in 1 .. n : r[l] = Item(l)
  <2>1. \A l \in 1 .. n : Item(l) \in Scalars
      BY <1>5
  <2> HIDE DEF Item
  <2> QED
      BY <1>3, <1>4, <2>1
<1> HIDE DEF Item
<1>7. ASSUME NEW k \in Nat PROVE Congruent(Coef(r)[k], i * Coef(up)[k] + (-i) * Coef(down)[k])
  <2>1. CASE k < n
    <3>1. k + 1 \in 1 .. n
        BY <1>3, <2>1
    <3>2. Coef(r)[k] = r[k + 1] /\ Coef(up)[k] = up[k + 1] /\ Coef(down)[k] = down[k + 1]
        BY <1>1, <1>6, <2>1, CoefIs
    <3>3. Congruent(r[k + 1], i * up[k + 1] + (-i) * down[k + 1])
        BY <1>5, <1>6, <3>1 DEF Item
    <3> QED
        BY <3>2, <3>3
  <2>2. CASE ~(k < n)
    <3>1. k >= n
        BY <1>3, <2>2
    <3>2. Coef(r)[k] = 0 /\ Coef(up)[k] = 0 /\ Coef(down)[k] = 0
        BY <1>1, <1>6, <3>1, CoefIs
    <3>3. i * 0 + (-i) * 0 = 0
        BY <1>2
    <3> QED
        BY <3>2, <3>3, CongruentSelf
  <2> QED
      BY <2>1, <2>2
<1>8. Combines(r, i, up, -i, down)
    BY <1>7 DEF Combines
<1>9. ASSUME NEW x \in Scalars
      PROVE  Congruent((b - a) * Eval(r, x), (b - x) * Eval(p, x) - (a - x) * Eval(q, x))
  <2> DEFINE u == Eval(up, x)
             v == Eval(down, x)
             z == Eval(r, x)
             s == (b - x) * Eval(p, x)
             t == (a - x) * Eval(q, x)
             y == (b - a) * z
  <2>1. u \in Int /\ v \in Int /\ z \in Int /\ Eval(p, x) \in Int /\ Eval(q, x) \in Int
      BY <1>1, <1>6, EvalIs, ScalarsAre
  <2>2. s \in Int /\ t \in Int /\ y \in Int
    <3>1. x \in Int
        BY ScalarsAre
    <3> QED
        BY <1>2, <2>1, <3>1
  <2>3. Congruent(u, s) /\ Congruent(v, t)
      BY <1>1
  <2>4. Congruent(z, i * u + (-i) * v)
    <3>1. -i \in Int
        BY <1>2
    <3> QED
        BY <1>1, <1>2, <1>6, <1>8, <3>1, EvalLinear
  <2>5. Congruent(y, u - v)
    <3> HIDE DEF u, v, z
    <3> QED
        BY <2>1, <2>4, Undo DEF i
  <2> HIDE DEF u, v, z, s, t, y
  <2>6. Congruent(u - v, s - t)
      BY <2>1, <2>2, <2>3, CongruentSum
  <2> DEFINE f == u - v
             g == s - t
  <2>7. f \in Int /\ g \in Int /\ Congruent(y, f) /\ Congruent(f, g)
      BY <2>1, <2>2, <2>5, <2>6
  <2> HIDE DEF f, g
  <2>8. Congruent(y, g)
      BY <2>2, <2>7, CongruentTrans
  <2> QED
      BY <2>8 DEF y, z, g, s, t
<1> QED
    BY <1>6, <1>9 DEF r, n

\* f starts from v, and its n-th step leads from R[n - 1] to R[n].
Through(f, Top, R, v, step) ==
    /\ f = [n \in 0 .. Top |-> IF n = 0 THEN v ELSE step[n][f[n - 1]]]
    /\ \A n \in 0 .. Top : f[n] \in R[n]

\* There is one if the steps lead so.
LEMMA SomeThrough ==
    ASSUME NEW Top \in Nat, NEW R, NEW v \in R[0], NEW step,
           \A n \in 1 .. Top : step[n] \in [R[n - 1] -> R[n]]
    PROVE  \E f : Through(f, Top, R, v, step)
<1> DEFINE S == UNION {R[n] : n \in 0 .. Top}
           all == [n \in Nat |-> [s \in S |-> IF n \in 1 .. Top /\ s \in R[n - 1] THEN step[n][s] ELSE s]]
<1>1. \A n \in 0 .. Top : R[n] \subseteq S
    OBVIOUS
<1>2. v \in S
    BY <1>1
<1>3. all \in [Nat -> [S -> S]]
  <2>1. ASSUME NEW n \in Nat, NEW s \in S
        PROVE  (IF n \in 1 .. Top /\ s \in R[n - 1] THEN step[n][s] ELSE s) \in S
    <3>1. CASE n \in 1 .. Top /\ s \in R[n - 1]
      <4>1. step[n][s] \in R[n] /\ n \in 0 .. Top
          BY <3>1
      <4> QED
          BY <1>1, <3>1, <4>1
    <3> QED
        BY <3>1
  <2> HIDE DEF S
  <2> QED
      BY <2>1
<1> HIDE DEF S
<1>4. PICK f : Runs(f, Top, S, v, all)
    BY <1>2, <1>3, SomeRun
<1>5. f \in [0 .. Top -> S] /\ \A n \in 0 .. Top : f[n] = IF n = 0 THEN v ELSE all[n][f[n - 1]]
    BY <1>4 DEF Runs
<1> DEFINE T == {n \in 0 .. Top : f[n] \in R[n]}
<1>6. ASSUME NEW n \in 1 .. Top, f[n - 1] \in R[n - 1]
      PROVE  f[n] = step[n][f[n - 1]] /\ f[n] \in R[n]
  <2>1. n \in 0 .. Top /\ n \in Nat /\ n # 0 /\ n - 1 \in 0 .. Top
      OBVIOUS
  <2>2. f[n - 1] \in S
      BY <1>5, <2>1
  <2>3. f[n] = step[n][f[n - 1]]
      BY <1>5, <1>6, <2>1, <2>2
  <2> QED
      BY <1>6, <2>3
<1>7. 0 \in T
  <2>1. 0 \in 0 .. Top
      OBVIOUS
  <2>2. f[0] = v
      BY <1>5, <2>1
  <2> QED
      BY <2>1, <2>2
<1>8. ASSUME NEW n \in 0 .. Top - 1, n \in T PROVE n + 1 \in T
  <2>1. n + 1 \in 1 .. Top /\ (n + 1) - 1 = n
      OBVIOUS
  <2> QED
      BY <1>6, <1>8, <2>1
<1> HIDE DEF T
<1>9. \A n \in 0 .. Top : n \in T
    BY <1>7, <1>8, UpTo
<1>10. \A n \in 0 .. Top : f[n] \in R[n]
    BY <1>9 DEF T
<1>11. ASSUME NEW n \in 0 .. Top PROVE f[n] = IF n = 0 THEN v ELSE step[n][f[n - 1]]
  <2>1. CASE n # 0
    <3>1. n \in 1 .. Top /\ n - 1 \in 0 .. Top
        BY <2>1
    <3> QED
        BY <1>6, <1>10, <2>1, <3>1
  <2> QED
      BY <1>5, <2>1
<1>12. f = [n \in 0 .. Top |-> IF n = 0 THEN v ELSE step[n][f[n - 1]]]
    BY <1>5, <1>11
<1> QED
    BY <1>10, <1>12 DEF Through

\* Points of which no two are the same
Apart(xs) == \A i, j \in DOMAIN xs : xs[i] = xs[j] => i = j

\* A difference that is not zero is cancelled.
LEMMA DifferenceCancels ==
    ASSUME NEW a \in Scalars, NEW b \in Scalars, a # b, NEW r \in Int, NEW s \in Int,
           Congruent((b - a) * r, (b - a) * s)
    PROVE  Congruent(r, s)
<1> DEFINE d == b - a
           e == r - s
<1>1. d \in Int /\ e \in Int /\ a \in Int /\ b \in Int
    BY ScalarsAre
<1>2. PICK k \in Int : d * r - d * s = k * Prime
    BY DEF Congruent
<1>3. d * e - 0 = k * Prime
  <2>1. d * e = d * r - d * s
    <3> HIDE DEF d
    <3> QED
        BY <1>1
  <2>2. d * e \in Int
      BY <1>1
  <2> HIDE DEF d, e
  <2> QED
      BY <1>2, <2>1, <2>2
<1> HIDE DEF d, e
<1>4. Congruent(d * e, 0)
    BY <1>3 DEF Congruent
<1>5. Congruent(d, 0) \/ Congruent(e, 0)
    BY <1>1, <1>4, Euclid
<1>6. ~Congruent(d, 0)
  <2>1. SUFFICES ASSUME Congruent(d, 0) PROVE FALSE
      OBVIOUS
  <2>2. PICK l \in Int : d - 0 = l * Prime
      BY <2>1 DEF Congruent
  <2>3. b - a = l * Prime
      BY <1>1, <2>2 DEF d
  <2>4. Congruent(b, a)
      BY <2>3 DEF Congruent
  <2> QED
      BY <2>4, ScalarsDiffer
<1>7. PICK l \in Int : e - 0 = l * Prime
    BY <1>5, <1>6 DEF Congruent
<1>8. r - s = l * Prime
    BY <1>1, <1>7 DEF e
<1> QED
    BY <1>8 DEF Congruent

\* q is of the least length that can take the values ys at the points xs from i up to r,
\* and does.
Fits(q, xs, ys, i, r) ==
    /\ q \in Seq(Scalars) /\ Len(q) = r - i + 1
    /\ \A m \in i .. r : Eval(q, xs[m]) = ys[m]

\* Two that fit but for a point at either end are joined to one that fits.
LEMMA FitsJoin ==
    ASSUME NEW xs \in Seq(Scalars), Apart(xs), NEW ys \in Seq(Scalars), Len(ys) = Len(xs),
           NEW i \in 1 .. Len(xs), NEW j \in 1 .. Len(xs), i < j,
           NEW p, Fits(p, xs, ys, i, j - 1), NEW q, Fits(q, xs, ys, i + 1, j)
    PROVE  Fits(Joined(p, q, xs[i], xs[j]), xs, ys, i, j)
<1> DEFINE a == xs[i]
           b == xs[j]
           c == Joined(p, q, a, b)
<1>1. /\ Len(xs) \in Nat /\ i \in Int /\ j \in Int /\ DOMAIN xs = 1 .. Len(xs)
      /\ \A m \in 1 .. Len(xs) : xs[m] \in Scalars /\ xs[m] \in Int /\ ys[m] \in Scalars /\ ys[m] \in Int
    BY ScalarSeq
<1>2. a \in Scalars /\ b \in Scalars /\ a # b
  <2>1. i \in DOMAIN xs /\ j \in DOMAIN xs /\ i # j
      BY <1>1
  <2>2. xs[i] # xs[j]
      BY <2>1 DEF Apart
  <2> QED
      BY <1>1, <2>2
<1>3. /\ p \in Seq(Scalars) /\ q \in Seq(Scalars) /\ Len(p) = j - i /\ Len(q) = j - i
      /\ \A m \in i .. j - 1 : Eval(p, xs[m]) = ys[m]
      /\ \A m \in i + 1 .. j : Eval(q, xs[m]) = ys[m]
    BY <1>1 DEF Fits
<1> HIDE DEF a, b
<1>4. /\ c \in Seq(Scalars) /\ Len(c) = Len(p) + 1
      /\ \A x \in Scalars :
           Congruent((b - a) * Eval(c, x), (b - x) * Eval(p, x) - (a - x) * Eval(q, x))
    BY <1>2, <1>3, JoinedIs
<1>5. Len(c) = j - i + 1
    BY <1>3, <1>4
<1> HIDE DEF c
<1>6. ASSUME NEW m \in i .. j PROVE Eval(c, xs[m]) = ys[m]
  <2> DEFINE x == xs[m]
             y == ys[m]
             e == Eval(c, x)
             u == Eval(p, x)
             v == Eval(q, x)
  <2>1. m \in 1 .. Len(xs)
      BY <1>1
  <2>2. x \in Scalars /\ x \in Int /\ y \in Scalars /\ y \in Int /\ a \in Int /\ b \in Int
      BY <1>1, <1>2, <2>1, ScalarsAre
  <2>3. e \in Scalars /\ u \in Scalars /\ v \in Scalars
      BY <1>3, <1>4, <2>2, EvalIs
  <2>4. e \in Int /\ u \in Int /\ v \in Int
      BY <2>3, ScalarsAre
  <2>5. Congruent((b - a) * e, (b - x) * u - (a - x) * v)
      BY <1>4, <2>2
  <2>6. /\ m # j => u = y
        /\ m # i => v = y
        /\ m = j => x = b
        /\ m = i => x = a
    <3>1. m # j => m \in i .. j - 1
        BY <1>1
    <3>2. m # i => m \in i + 1 .. j
        BY <1>1
    <3> QED
        BY <1>3, <3>1, <3>2 DEF a, b
  <2> HIDE DEF x, y, e, u, v
  <2>7. (b - x) * u - (a - x) * v = (b - a) * y
    <3>1. CASE m = i
      <4>1. u = y /\ x = a
          BY <1>1, <2>6, <3>1
      <4>2. (a - x) * v = 0
          BY <2>2, <2>4, <4>1
      <4> QED
          BY <2>2, <2>4, <4>1, <4>2
    <3>2. CASE m = j
      <4>1. v = y /\ x = b
          BY <1>1, <2>6, <3>2
      <4>2. (b - x) * u = 0
          BY <2>2, <2>4, <4>1
      <4> QED
          BY <2>2, <2>4, <4>1, <4>2
    <3>3. CASE m # i /\ m # j
      <4>1. u = y /\ v = y
          BY <2>6, <3>3
      <4> QED
          BY <2>2, <2>4, <4>1
    <3> QED
        BY <3>1, <3>2, <3>3
  <2>8. Congruent((b - a) * e, (b - a) * y)
      BY <2>5, <2>7
  <2>9. Congruent(e, y)
      BY <1>2, <2>2, <2>4, <2>8, DifferenceCancels
  <2>10. e = y
      BY <2>2, <2>3, <2>9, ScalarsDiffer
  <2> QED
      BY <2>10 DEF e, x, y
<1> QED
    BY <1>4, <1>5, <1>6 DEF Fits, c, a, b

\* There is one polynomial that fits, as far as its values go.
LEMMA FitsSame ==
    ASSUME NEW xs \in Seq(Scalars), Apart(xs), NEW ys,
           NEW i \in 1 .. Len(xs), NEW r \in 1 .. Len(xs), i <= r,
           NEW p, Fits(p, xs, ys, i, r), NEW q \in Seq(Scalars), Len(q) <= r - i + 1,
           \A m \in i .. r : Eval(q, xs[m]) = ys[m]
    PROVE  /\ \A k \in Nat : Coef(p)[k] = Coef(q)[k]
           /\ \A x \in Scalars : Eval(p, x) = Eval(q, x)
<1> DEFINE R == {xs[m] : m \in i .. r}
           f == [m \in i .. r |-> xs[m]]
<1>1. Len(xs) \in Nat /\ DOMAIN xs = 1 .. Len(xs) /\ \A m \in 1 .. Len(xs) : xs[m] \in Scalars
    BY ScalarSeq
<1>2. i \in Int /\ r \in Int /\ i .. r \subseteq 1 .. Len(xs)
    BY <1>1
<1>3. R \in SUBSET Scalars
    BY <1>1, <1>2
<1>4. f \in Bijection(i .. r, R)
    BY <1>1, <1>2 DEF Apart, Bijection, Injection, Surjection, IsInjective
<1>5. ExistsBijection(i .. r, R)
    BY <1>4 DEF ExistsBijection
<1>6. IsFiniteSet(i .. r) /\ Cardinality(i .. r) = r - i + 1
  <2>1. IsFiniteSet(i .. r) /\ Cardinality(i .. r) = IF i > r THEN 0 ELSE r - i + 1
      BY <1>2, FS_Interval
  <2> QED
      BY <1>2, <2>1
<1>7. Cardinality(R) = r - i + 1
  <2> DEFINE D == i .. r
  <2> HIDE DEF D, R
  <2>1. Cardinality(R) = Cardinality(D)
      BY <1>5, <1>6, FS_Bijection DEF D
  <2> QED
      BY <1>6, <2>1 DEF D
<1>8. p \in Seq(Scalars) /\ Len(p) = r - i + 1 /\ Len(q) \in Nat
    BY ScalarSeq DEF Fits
<1>9. \A x \in R : Eval(p, x) = Eval(q, x)
    BY DEF Fits
<1>10. Cardinality(R) >= Len(p) /\ Cardinality(R) >= Len(q)
    BY <1>2, <1>7, <1>8
<1> HIDE DEF R
<1>11. \A k \in Nat : Coef(p)[k] = Coef(q)[k]
    BY <1>3, <1>8, <1>9, <1>10, SameValues
<1>12. \A x \in Scalars : Eval(p, x) = Eval(q, x)
    BY <1>8, <1>11, SameCoefsEval
<1> QED
    BY <1>11, <1>12

\* How far the i-th polynomial reaches after the k-th step of column j, and the state of
\* the polynomials then
Reach(i, j, k) == IF i >= j THEN i ELSE IF i >= j - k THEN j ELSE j - 1

Fitted(p, xs, ys, j, k) ==
    /\ p \in [1 .. Len(xs) -> Seq(Scalars)]
    /\ \A i \in 1 .. Len(xs) : Fits(p[i], xs, ys, i, Reach(i, j, k))

\* A step of the inner loop makes one more polynomial reach the j-th point.
LEMMA JoinFits ==
    ASSUME NEW xs \in Seq(Scalars), Apart(xs), NEW ys \in Seq(Scalars), Len(ys) = Len(xs),
           NEW j \in 2 .. Len(xs), NEW k \in 1 .. j - 1, NEW p, Fitted(p, xs, ys, j, k - 1)
    PROVE  Fitted(Join(xs, p, j - k, j), xs, ys, j, k)
<1> DEFINE i == j - k
           n == Len(xs)
           c == Joined(p[i], p[i + 1], xs[i], xs[j])
           next == Join(xs, p, i, j)
<1>1. n \in Nat /\ j \in 2 .. n /\ k \in 1 .. j - 1 /\ i \in 1 .. n /\ i < j /\ i + 1 \in 1 .. n
  <2>1. n \in Nat
      BY ScalarSeq
  <2> QED
      BY <2>1
<1>2. p \in [1 .. n -> Seq(Scalars)] /\ \A m \in 1 .. n : Fits(p[m], xs, ys, m, Reach(m, j, k - 1))
    BY DEF Fitted
<1>3. i = j - k
    OBVIOUS
<1>9. next = [p EXCEPT ![i] = c \o <<>>]
    BY DEF Join, Joined
<1> HIDE DEF i, n, next
<1>4. Reach(i, j, k - 1) = j - 1 /\ Reach(i + 1, j, k - 1) = j /\ Reach(i, j, k) = j
    BY <1>1, <1>3 DEF Reach
<1>5. Fits(p[i], xs, ys, i, j - 1) /\ Fits(p[i + 1], xs, ys, i + 1, j)
    BY <1>1, <1>2, <1>4
<1>6. Fits(c, xs, ys, i, j)
    BY <1>1, <1>5, FitsJoin DEF n
<1> HIDE DEF c
<1>7. c \in Seq(Scalars) /\ c \o <<>> = c
  <2>1. c \in Seq(Scalars)
      BY <1>6 DEF Fits
  <2> QED
      BY <2>1
<1>8. next \in [1 .. n -> Seq(Scalars)] /\ next[i] = c /\ \A m \in 1 .. n : m # i => next[m] = p[m]
    BY <1>1, <1>2, <1>7, <1>9
<1>10. ASSUME NEW m \in 1 .. n PROVE Fits(next[m], xs, ys, m, Reach(m, j, k))
  <2>1. CASE m = i
      BY <1>4, <1>6, <1>8, <2>1
  <2>2. CASE m # i
    <3>1. Reach(m, j, k) = Reach(m, j, k - 1)
        BY <1>1, <1>3, <2>2 DEF Reach
    <3>2. next[m] = p[m]
        BY <1>8, <2>2
    <3> QED
        BY <1>2, <3>1, <3>2
  <2> QED
      BY <2>1, <2>2
<1> QED
    BY <1>8, <1>10 DEF Fitted, n, next, i

\* The inner loop takes each polynomial before j through j.
LEMMA ColumnFits ==
    ASSUME NEW xs \in Seq(Scalars), Apart(xs), NEW ys \in Seq(Scalars), Len(ys) = Len(xs),
           NEW j \in 2 .. Len(xs), NEW p, Fitted(p, xs, ys, j, 0)
    PROVE  Fitted(Column(xs, p, j), xs, ys, j + 1, 0)
<1> DEFINE Top == j - 1
           R == [k \in 0 .. Top |-> {q \in [1 .. Len(xs) -> Seq(Scalars)] : Fitted(q, xs, ys, j, k)}]
           step == [k \in 1 .. Top |-> [q \in R[k - 1] |-> Join(xs, q, j - k, j)]]
           Is(f) == f = [k \in 0 .. Top |-> IF k = 0 THEN p ELSE Join(xs, f[k - 1], j - k, j)]
           inner == CHOOSE f : Is(f)
<1>1. Top \in Nat /\ Top >= 1 /\ j \in Int /\ Len(xs) \in Nat
    BY ScalarSeq
<1>2. \A k \in 0 .. Top : R[k] = {q \in [1 .. Len(xs) -> Seq(Scalars)] : Fitted(q, xs, ys, j, k)}
    OBVIOUS
<1>3. ASSUME NEW k \in 0 .. Top, NEW q PROVE q \in R[k] <=> Fitted(q, xs, ys, j, k)
    BY <1>2 DEF Fitted
<1> HIDE DEF R
<1>4. p \in R[0]
  <2>1. 0 \in 0 .. Top
      BY <1>1
  <2> QED
      BY <1>3, <2>1
<1>5. ASSUME NEW k \in 1 .. Top, NEW q \in R[k - 1] PROVE Join(xs, q, j - k, j) \in R[k]
  <2>1. k - 1 \in 0 .. Top /\ k \in 0 .. Top /\ k \in 1 .. j - 1
      BY <1>1
  <2>2. Fitted(q, xs, ys, j, k - 1)
      BY <1>3, <2>1
  <2>3. Fitted(Join(xs, q, j - k, j), xs, ys, j, k)
      BY <2>1, <2>2, JoinFits
  <2> QED
      BY <1>3, <2>1, <2>3
<1>6. \A k \in 1 .. Top : step[k] \in [R[k - 1] -> R[k]]
    BY <1>5
<1>7. PICK f : Through(f, Top, R, p, step)
    BY <1>1, <1>4, <1>6, SomeThrough
<1>8. ASSUME NEW k \in 0 .. Top PROVE f[k] = IF k = 0 THEN p ELSE Join(xs, f[k - 1], j - k, j)
  <2>1. f[k] = (IF k = 0 THEN p ELSE step[k][f[k - 1]]) /\ f[k] \in R[k]
      BY <1>7 DEF Through
  <2>2. CASE k # 0
    <3>1. k \in 1 .. Top /\ k - 1 \in 0 .. Top
        BY <2>2
    <3>2. f[k - 1] \in R[k - 1]
        BY <1>7, <3>1 DEF Through
    <3>3. step[k][f[k - 1]] = Join(xs, f[k - 1], j - k, j)
        BY <3>1, <3>2
    <3> QED
        BY <2>1, <2>2, <3>3
  <2> QED
      BY <2>1, <2>2
<1>9. Is(f)
  <2>1. f = [k \in 0 .. Top |-> IF k = 0 THEN p ELSE step[k][f[k - 1]]]
      BY <1>7 DEF Through
  <2> HIDE DEF step
  <2>2. [k \in 0 .. Top |-> IF k = 0 THEN p ELSE step[k][f[k - 1]]]
          = [k \in 0 .. Top |-> IF k = 0 THEN p ELSE Join(xs, f[k - 1], j - k, j)]
    <3>1. \A k \in 0 .. Top : (IF k = 0 THEN p ELSE step[k][f[k - 1]])
                             = (IF k = 0 THEN p ELSE Join(xs, f[k - 1], j - k, j))
        BY <1>8, <2>1
    <3> QED
        BY <3>1
  <2> QED
      BY <2>1, <2>2
<1>10. Is(inner)
    BY <1>9
<1>11. Column(xs, p, j) = inner[Top]
    BY DEF Column
<1> HIDE DEF inner
<1>12. \A k \in 0 .. Top : inner[k] = IF k = 0 THEN p ELSE Join(xs, inner[k - 1], j - k, j)
    BY <1>10
<1> DEFINE T == {k \in 0 .. Top : inner[k] \in R[k]}
<1>13. 0 \in T
  <2>1. 0 \in 0 .. Top
      BY <1>1
  <2>2. inner[0] = p
      BY <1>12, <2>1
  <2> QED
      BY <1>4, <2>1, <2>2
<1>14. ASSUME NEW k \in 0 .. Top - 1, k \in T PROVE k + 1 \in T
  <2>1. k + 1 \in 1 .. Top /\ (k + 1) - 1 = k /\ k + 1 \in 0 .. Top /\ k + 1 # 0
      BY <1>1
  <2>2. inner[k + 1] = Join(xs, inner[k], j - (k + 1), j)
      BY <1>12, <2>1
  <2>3. inner[k] \in R[(k + 1) - 1]
      BY <1>14, <2>1
  <2> QED
      BY <1>5, <2>1, <2>2, <2>3
<1> HIDE DEF T
<1>15. Top \in T
  <2>1. \A k \in 0 .. Top : k \in T
      BY <1>1, <1>13, <1>14, UpTo
  <2> QED
      BY <1>1, <2>1
<1>16. Fitted(inner[Top], xs, ys, j, Top)
  <2>1. Top \in 0 .. Top /\ inner[Top] \in R[Top]
      BY <1>1, <1>15 DEF T
  <2> QED
      BY <1>3, <2>1
<1>17. \A i \in 1 .. Len(xs) : Reach(i, j, Top) = Reach(i, j + 1, 0)
    BY <1>1 DEF Reach
<1>18. Fitted(inner[Top], xs, ys, j + 1, 0)
  <2> HIDE DEF Top
  <2> QED
      BY <1>16, <1>17 DEF Fitted
<1> QED
    BY <1>11, <1>18

\* A polynomial with one coefficient has it as its value.
LEMMA EvalOne ==
    ASSUME NEW y \in Scalars, NEW x \in Scalars
    PROVE  <<y>> \in Seq(Scalars) /\ Len(<<y>>) = 1 /\ Eval(<<y>>, x) = y
<1>1. <<y>> \in Seq(Scalars) /\ Len(<<y>>) = 1 /\ <<y>> # <<>> /\ <<y>>[1] = y
    OBVIOUS
<1> QED
    BY <1>1, EvalRuns

\* interpolate finds a polynomial with the values at the points, no longer than it must be.
THEOREM InterpolateFits ==
    ASSUME NEW xs \in Seq(Scalars), xs # <<>>, Apart(xs), NEW ys \in Seq(Scalars), Len(ys) = Len(xs)
    PROVE  Fits(Interpolate(xs, ys), xs, ys, 1, Len(xs))
<1> DEFINE n == Len(xs)
           Top == n - 1
           p == [i \in DOMAIN ys |-> <<ys[i]>>]
           R == [k \in 0 .. Top |-> {q \in [1 .. n -> Seq(Scalars)] : Fitted(q, xs, ys, k + 2, 0)}]
           step == [k \in 1 .. Top |-> [q \in R[k - 1] |-> Column(xs, q, k + 1)]]
           Is(f) == f = [j \in 1 .. n |-> IF j = 1 THEN p ELSE Column(xs, f[j - 1], j)]
           polys == CHOOSE f : Is(f)
<1>1. /\ n \in Nat \ {0} /\ Top \in Nat /\ DOMAIN ys = 1 .. n /\ n = Top + 1
      /\ \A i \in 1 .. n : xs[i] \in Scalars /\ ys[i] \in Scalars
    BY ScalarSeq
<1>2. Interpolate(xs, ys) = polys[n][1]
    BY DEF Interpolate
<1>3. \A k \in 0 .. Top : \A q : q \in R[k] <=> Fitted(q, xs, ys, k + 2, 0)
    BY DEF Fitted
<1>20. \A j \in 2 .. n : \A q :
             Fitted(q, xs, ys, j, 0) => Fitted(Column(xs, q, j), xs, ys, j + 1, 0)
    BY ColumnFits
<1> HIDE DEF R, n, Top
<1>4. p \in R[0]
  <2>1. ASSUME NEW i \in 1 .. n PROVE Fits(p[i], xs, ys, i, Reach(i, 0 + 2, 0)) /\ p[i] \in Seq(Scalars)
    <3>1. Reach(i, 0 + 2, 0) = i /\ i - i + 1 = 1 /\ p[i] = <<ys[i]>> /\ \A m \in i .. i : m = i
        BY <1>1 DEF Reach
    <3>2. ys[i] \in Scalars /\ xs[i] \in Scalars
        BY <1>1
    <3>3. <<ys[i]>> \in Seq(Scalars) /\ Len(<<ys[i]>>) = 1 /\ Eval(<<ys[i]>>, xs[i]) = ys[i]
        BY <3>2, EvalOne
    <3> HIDE DEF p
    <3>4. Fits(p[i], xs, ys, i, i)
        BY <3>1, <3>3 DEF Fits
    <3> QED
        BY <3>1, <3>3, <3>4
  <2>2. p \in [1 .. n -> Seq(Scalars)]
      BY <1>1, <2>1
  <2> HIDE DEF p
  <2>3. Fitted(p, xs, ys, 0 + 2, 0)
      BY <2>1, <2>2 DEF Fitted, n
  <2>4. 0 \in 0 .. Top
      BY <1>1
  <2> QED
      BY <1>3, <2>3, <2>4
<1>5. ASSUME NEW k \in 1 .. Top, NEW q \in R[k - 1] PROVE Column(xs, q, k + 1) \in R[k]
  <2>1. k - 1 \in 0 .. Top /\ k \in 0 .. Top /\ k + 1 \in 2 .. n /\ (k - 1) + 2 = k + 1 /\ (k + 1) + 1 = k + 2
      BY <1>1
  <2>2. Fitted(q, xs, ys, k + 1, 0)
      BY <1>3, <2>1
  <2>3. Fitted(Column(xs, q, k + 1), xs, ys, k + 2, 0)
      BY <1>20, <2>1, <2>2
  <2> QED
      BY <1>3, <2>1, <2>3
<1>6. \A k \in 1 .. Top : step[k] \in [R[k - 1] -> R[k]]
    BY <1>5
<1> HIDE DEF p
<1>7. PICK g : Through(g, Top, R, p, step)
    BY <1>1, <1>4, <1>6, SomeThrough
<1>8. ASSUME NEW k \in 0 .. Top PROVE g[k] = IF k = 0 THEN p ELSE Column(xs, g[k - 1], k + 1)
  <2>1. g[k] = (IF k = 0 THEN p ELSE step[k][g[k - 1]]) /\ g[k] \in R[k]
      BY <1>7 DEF Through
  <2>2. CASE k # 0
    <3>1. k \in 1 .. Top /\ k - 1 \in 0 .. Top
        BY <1>1, <2>2
    <3>2. g[k - 1] \in R[k - 1]
        BY <1>7, <3>1 DEF Through
    <3>3. step[k][g[k - 1]] = Column(xs, g[k - 1], k + 1)
        BY <3>1, <3>2
    <3> QED
        BY <2>1, <2>2, <3>3
  <2> QED
      BY <2>1, <2>2
<1> DEFINE f == [j \in 1 .. n |-> g[j - 1]]
<1>9. Is(f)
  <2>1. ASSUME NEW j \in 1 .. n PROVE f[j] = IF j = 1 THEN p ELSE Column(xs, f[j - 1], j)
    <3>1. j - 1 \in 0 .. Top /\ (j - 1 = 0 <=> j = 1) /\ (j - 1) + 1 = j
        BY <1>1
    <3>2. g[j - 1] = IF j = 1 THEN p ELSE Column(xs, g[(j - 1) - 1], j)
        BY <1>8, <3>1
    <3>3. j # 1 => j - 1 \in 1 .. n
        BY <1>1
    <3>4. j # 1 => f[j - 1] = g[(j - 1) - 1]
      <4> HIDE DEF f
      <4>1. \A i \in 1 .. n : f[i] = g[i - 1]
          BY DEF f
      <4> QED
          BY <3>3, <4>1
    <3>5. f[j] = g[j - 1]
        OBVIOUS
    <3> HIDE DEF f
    <3> QED
        BY <3>2, <3>4, <3>5
  <2>2. f = [j \in 1 .. n |-> f[j]]
      OBVIOUS
  <2> HIDE DEF f
  <2>3. [j \in 1 .. n |-> f[j]] = [j \in 1 .. n |-> IF j = 1 THEN p ELSE Column(xs, f[j - 1], j)]
      BY <2>1
  <2> QED
      BY <2>2, <2>3
<1>10. Is(polys)
    BY <1>9
<1> HIDE DEF polys, f
<1>12. \A j \in 1 .. n : polys[j] = IF j = 1 THEN p ELSE Column(xs, polys[j - 1], j)
    BY <1>10
<1> DEFINE T == {k \in 0 .. Top : polys[k + 1] \in R[k]}
<1>13. 0 \in T
  <2>1. 0 \in 0 .. Top /\ 0 + 1 = 1 /\ 1 \in 1 .. n
      BY <1>1
  <2>2. polys[1] = p
      BY <1>12, <2>1
  <2> QED
      BY <1>4, <2>1, <2>2
<1>14. ASSUME NEW k \in 0 .. Top - 1, k \in T PROVE k + 1 \in T
  <2>1. k + 1 \in 1 .. Top /\ (k + 1) - 1 = k /\ k + 1 \in 0 .. Top /\ (k + 1) + 1 \in 1 .. n
        /\ (k + 1) + 1 # 1 /\ ((k + 1) + 1) - 1 = k + 1
      BY <1>1
  <2>2. polys[(k + 1) + 1] = Column(xs, polys[k + 1], (k + 1) + 1)
      BY <1>12, <2>1
  <2>3. polys[k + 1] \in R[(k + 1) - 1]
      BY <1>14, <2>1
  <2> QED
      BY <1>5, <2>1, <2>2, <2>3
<1> HIDE DEF T
<1>15. polys[n] \in R[Top]
  <2>1. \A k \in 0 .. Top : k \in T
      BY <1>1, <1>13, <1>14, UpTo
  <2>2. Top \in 0 .. Top /\ Top + 1 = n
      BY <1>1
  <2> QED
      BY <2>1, <2>2 DEF T
<1>16. Fitted(polys[n], xs, ys, n + 1, 0)
  <2>1. Top \in 0 .. Top /\ Top + 2 = n + 1
      BY <1>1
  <2> QED
      BY <1>3, <1>15, <2>1
<1>17. Reach(1, n + 1, 0) = n /\ 1 \in 1 .. n
    BY <1>1 DEF Reach
<1> QED
    BY <1>2, <1>16, <1>17 DEF Fitted, n

-----------------------------------------------------------------------------
(* Interpolation at a point *)

\* What a step of interpolate_at makes of the values u and v at x of the polynomials joined
JoinedAt(u, v, a, b, x) ==
    Times(Minus(Times(u, Minus(b, x)), Times(v, Minus(a, x))), Invert(Minus(b, a)))

\* It is the value of the polynomial they are joined to.
LEMMA JoinedAtIs ==
    ASSUME NEW p \in Seq(Scalars), NEW q \in Seq(Scalars), Len(p) = Len(q),
           NEW a \in Scalars, NEW b \in Scalars, a # b, NEW x \in Scalars
    PROVE  JoinedAt(Eval(p, x), Eval(q, x), a, b, x) = Eval(Joined(p, q, a, b), x)
<1> DEFINE u == Eval(p, x)
           v == Eval(q, x)
           e == Eval(Joined(p, q, a, b), x)
           i == Invert(Minus(b, a))
           bx == Minus(b, x)
           ax == Minus(a, x)
           s == Times(u, bx)
           t == Times(v, ax)
           f == Minus(s, t)
           w == Times(f, i)
           S == (b - x) * u
           T == (a - x) * v
           o == 0
<1>1. a \in Int /\ b \in Int /\ x \in Int /\ u \in Int /\ v \in Int /\ e \in Scalars /\ e \in Int
  <2>1. Joined(p, q, a, b) \in Seq(Scalars)
      BY JoinedIs
  <2>2. u \in Scalars /\ v \in Scalars /\ e \in Scalars
      BY <2>1, EvalIs
  <2> HIDE DEF u, v, e
  <2> QED
      BY <2>2, ScalarsAre
<1>2. Congruent((b - a) * e, S - T)
    BY JoinedIs
<1>3. i \in Int
    BY InverseUndone, ScalarsAre
<1> HIDE DEF u, v, e, i
<1>4. ASSUME NEW c \in Int, NEW y \in Int
      PROVE  Times(y, Minus(c, x)) \in Int /\ Congruent(Times(y, Minus(c, x)), (c - x) * y)
  <2> DEFINE d == Minus(c, x)
             g == c - x
  <2>1. d \in Int /\ g \in Int /\ Congruent(d, g)
    <3>1. d \in Scalars /\ Congruent(d, g)
        BY <1>1, OperationsAre
    <3>2. g \in Int
        BY <1>1
    <3> QED
        BY <3>1, <3>2, ScalarsAre
  <2> HIDE DEF d, g
  <2> DEFINE h == Times(y, d)
             k == y * d
             l == y * g
  <2>2. h \in Scalars /\ Congruent(h, k)
      BY <2>1, OperationsAre
  <2>3. k \in Int /\ l \in Int /\ l = g * y
      BY <2>1
  <2>4. Congruent(k, l)
      BY <2>1, CongruentSelf, CongruentProduct
  <2>5. h \in Int
      BY <2>2, ScalarsAre
  <2> HIDE DEF h, k, l
  <2>6. Congruent(h, l)
      BY <2>2, <2>3, <2>4, <2>5, CongruentTrans
  <2> QED
      BY <2>3, <2>5, <2>6 DEF h, g, d
<1>5. s \in Int /\ t \in Int /\ Congruent(s, S) /\ Congruent(t, T)
    BY <1>1, <1>4
<1>6. S \in Int /\ T \in Int
    BY <1>1
<1> HIDE DEF s, t, S, T
<1>7. f \in Int /\ Congruent(f, S - T)
  <2> DEFINE g == s - t
             h == S - T
  <2>1. g \in Int /\ h \in Int /\ Congruent(g, h)
      BY <1>5, <1>6, CongruentSum
  <2>2. f \in Scalars /\ Congruent(f, g)
      BY <1>5, OperationsAre
  <2>3. f \in Int
      BY <2>2, ScalarsAre
  <2> HIDE DEF f, g, h
  <2>4. Congruent(f, h)
      BY <2>1, <2>2, <2>3, CongruentTrans
  <2> QED
      BY <2>3, <2>4 DEF h
<1> HIDE DEF f
<1>8. w \in Scalars /\ w \in Int /\ o \in Int /\ f - o = f /\ Congruent(w, i * f + (-i) * o)
  <2>1. w \in Scalars /\ Congruent(w, f * i)
      BY <1>3, <1>7, OperationsAre
  <2>2. w \in Int
      BY <2>1, ScalarsAre
  <2>3. f * i = i * f + (-i) * o /\ f - o = f /\ o \in Int
      BY <1>3, <1>7
  <2> QED
      BY <2>1, <2>2, <2>3
<1> HIDE DEF w, o
<1>9. Congruent((b - a) * w, f - o)
    BY <1>7, <1>8, Undo DEF i
<1> DEFINE y == (b - a) * w
           z == (b - a) * e
           g == S - T
<1>10. y \in Int /\ z \in Int /\ g \in Int /\ Congruent(y, f) /\ Congruent(f, g)
       /\ Congruent(z, g)
  <2>1. f - o = f
      BY <1>8
  <2>2. Congruent(y, f) /\ Congruent(f, g) /\ Congruent(z, g)
      BY <1>2, <1>7, <1>9, <2>1
  <2>3. g \in Int
      BY <1>6
  <2> HIDE DEF g
  <2>4. y \in Int /\ z \in Int
      BY <1>1, <1>8
  <2> QED
      BY <2>2, <2>3, <2>4
<1> HIDE DEF y, z, g
<1>11. Congruent(y, z)
  <2>1. Congruent(y, g)
      BY <1>7, <1>10, CongruentTrans
  <2>2. Congruent(g, z)
      BY <1>10, CongruentSym
  <2> QED
      BY <1>10, <2>1, <2>2, CongruentTrans
<1>12. Congruent(w, e)
    BY <1>1, <1>8, <1>11, DifferenceCancels DEF y, z
<1>13. w = e
    BY <1>1, <1>8, <1>12, ScalarsDiffer
<1> QED
    BY <1>13 DEF w, f, s, t, i, u, v, e, JoinedAt

\* The values at z of polynomials that fit
FittedAt(v, xs, ys, z, j, k) ==
    /\ v \in [1 .. Len(xs) -> Scalars]
    /\ \A i \in 1 .. Len(xs) :
          \E q \in Seq(Scalars) : Fits(q, xs, ys, i, Reach(i, j, k)) /\ v[i] = Eval(q, z)

\* A step of the inner loop makes one more value that of a polynomial that reaches j.
LEMMA JoinAtFits ==
    ASSUME NEW xs \in Seq(Scalars), Apart(xs), NEW ys \in Seq(Scalars), Len(ys) = Len(xs),
           NEW z \in Scalars, NEW j \in 2 .. Len(xs), NEW k \in 1 .. j - 1,
           NEW v, FittedAt(v, xs, ys, z, j, k - 1)
    PROVE  FittedAt(JoinAt(xs, v, z, j - k, j), xs, ys, z, j, k)
<1> DEFINE i == j - k
           n == Len(xs)
           next == JoinAt(xs, v, z, i, j)
<1>1. n \in Nat /\ j \in 2 .. n /\ k \in 1 .. j - 1 /\ i \in 1 .. n /\ i < j /\ i + 1 \in 1 .. n
  <2>1. n \in Nat
      BY ScalarSeq
  <2> QED
      BY <2>1
<1>2. /\ v \in [1 .. n -> Scalars]
      /\ \A m \in 1 .. n :
            \E q \in Seq(Scalars) : Fits(q, xs, ys, m, Reach(m, j, k - 1)) /\ v[m] = Eval(q, z)
    BY DEF FittedAt
<1>3. i = j - k
    OBVIOUS
<1>4. next = [v EXCEPT ![i] = JoinedAt(v[i], v[i + 1], xs[i], xs[j], z)]
    BY DEF JoinAt, JoinedAt
<1> HIDE DEF i, n, next
<1>5. Reach(i, j, k - 1) = j - 1 /\ Reach(i + 1, j, k - 1) = j /\ Reach(i, j, k) = j
    BY <1>1, <1>3 DEF Reach
<1>6. PICK p \in Seq(Scalars) : Fits(p, xs, ys, i, j - 1) /\ v[i] = Eval(p, z)
    BY <1>1, <1>2, <1>5
<1>7. PICK q \in Seq(Scalars) : Fits(q, xs, ys, i + 1, j) /\ v[i + 1] = Eval(q, z)
    BY <1>1, <1>2, <1>5
<1> DEFINE c == Joined(p, q, xs[i], xs[j])
<1>8. Fits(c, xs, ys, i, j)
  <2>1. i \in 1 .. Len(xs) /\ j \in 1 .. Len(xs) /\ i < j
      BY <1>1 DEF n
  <2>2. Fits(p, xs, ys, i, j - 1) /\ Fits(q, xs, ys, i + 1, j)
      BY <1>6, <1>7
  <2> QED
      BY <2>1, <2>2, FitsJoin
<1>9. xs[i] \in Scalars /\ xs[j] \in Scalars /\ xs[i] # xs[j]
  <2>1. i \in DOMAIN xs /\ j \in DOMAIN xs /\ i # j /\ i \in 1 .. Len(xs) /\ j \in 1 .. Len(xs)
      BY <1>1 DEF n
  <2>2. xs[i] # xs[j]
      BY <2>1 DEF Apart
  <2> QED
      BY <2>1, <2>2, ScalarSeq
<1>10. Len(p) = Len(q)
  <2>1. Len(p) = (j - 1) - i + 1 /\ Len(q) = j - (i + 1) + 1
      BY <1>6, <1>7 DEF Fits
  <2> QED
      BY <1>1, <2>1
<1>11. JoinedAt(v[i], v[i + 1], xs[i], xs[j], z) = Eval(c, z)
    BY <1>6, <1>7, <1>9, <1>10, JoinedAtIs
<1> HIDE DEF c
<1>12. c \in Seq(Scalars) /\ Eval(c, z) \in Scalars
    BY <1>8, EvalIs DEF Fits
<1>13. next \in [1 .. n -> Scalars] /\ next[i] = Eval(c, z) /\ \A m \in 1 .. n : m # i => next[m] = v[m]
    BY <1>1, <1>2, <1>4, <1>11, <1>12
<1>14. ASSUME NEW m \in 1 .. n
       PROVE  \E r \in Seq(Scalars) : Fits(r, xs, ys, m, Reach(m, j, k)) /\ next[m] = Eval(r, z)
  <2>1. CASE m = i
      BY <1>5, <1>8, <1>12, <1>13, <2>1
  <2>2. CASE m # i
    <3>1. Reach(m, j, k) = Reach(m, j, k - 1)
        BY <1>1, <1>3, <2>2 DEF Reach
    <3>2. next[m] = v[m]
        BY <1>13, <2>2
    <3> QED
        BY <1>2, <3>1, <3>2
  <2> QED
      BY <2>1, <2>2
<1> QED
    BY <1>13, <1>14 DEF FittedAt, n, next, i

\* The same for the values at z
LEMMA ColumnAtFits ==
    ASSUME NEW xs \in Seq(Scalars), Apart(xs), NEW ys \in Seq(Scalars), Len(ys) = Len(xs),
           NEW z \in Scalars, NEW j \in 2 .. Len(xs), NEW p, FittedAt(p, xs, ys, z, j, 0)
    PROVE  FittedAt(ColumnAt(xs, p, z, j), xs, ys, z, j + 1, 0)
<1> DEFINE Top == j - 1
           R == [k \in 0 .. Top |-> {q \in [1 .. Len(xs) -> Scalars] : FittedAt(q, xs, ys, z, j, k)}]
           step == [k \in 1 .. Top |-> [q \in R[k - 1] |-> JoinAt(xs, q, z, j - k, j)]]
           Is(f) == f = [k \in 0 .. Top |-> IF k = 0 THEN p ELSE JoinAt(xs, f[k - 1], z, j - k, j)]
           inner == CHOOSE f : Is(f)
<1>1. Top \in Nat /\ Top >= 1 /\ j \in Int /\ Len(xs) \in Nat
    BY ScalarSeq
<1>2. \A k \in 0 .. Top : R[k] = {q \in [1 .. Len(xs) -> Scalars] : FittedAt(q, xs, ys, z, j, k)}
    OBVIOUS
<1>3. ASSUME NEW k \in 0 .. Top, NEW q PROVE q \in R[k] <=> FittedAt(q, xs, ys, z, j, k)
    BY <1>2 DEF FittedAt
<1> HIDE DEF R
<1>4. p \in R[0]
  <2>1. 0 \in 0 .. Top
      BY <1>1
  <2> QED
      BY <1>3, <2>1
<1>5. ASSUME NEW k \in 1 .. Top, NEW q \in R[k - 1] PROVE JoinAt(xs, q, z, j - k, j) \in R[k]
  <2>1. k - 1 \in 0 .. Top /\ k \in 0 .. Top /\ k \in 1 .. j - 1
      BY <1>1
  <2>2. FittedAt(q, xs, ys, z, j, k - 1)
      BY <1>3, <2>1
  <2>3. FittedAt(JoinAt(xs, q, z, j - k, j), xs, ys, z, j, k)
      BY <2>1, <2>2, JoinAtFits
  <2> QED
      BY <1>3, <2>1, <2>3
<1>6. \A k \in 1 .. Top : step[k] \in [R[k - 1] -> R[k]]
    BY <1>5
<1>7. PICK f : Through(f, Top, R, p, step)
    BY <1>1, <1>4, <1>6, SomeThrough
<1>8. ASSUME NEW k \in 0 .. Top PROVE f[k] = IF k = 0 THEN p ELSE JoinAt(xs, f[k - 1], z, j - k, j)
  <2>1. f[k] = (IF k = 0 THEN p ELSE step[k][f[k - 1]]) /\ f[k] \in R[k]
      BY <1>7 DEF Through
  <2>2. CASE k # 0
    <3>1. k \in 1 .. Top /\ k - 1 \in 0 .. Top
        BY <2>2
    <3>2. f[k - 1] \in R[k - 1]
        BY <1>7, <3>1 DEF Through
    <3>3. step[k][f[k - 1]] = JoinAt(xs, f[k - 1], z, j - k, j)
        BY <3>1, <3>2
    <3> QED
        BY <2>1, <2>2, <3>3
  <2> QED
      BY <2>1, <2>2
<1>9. Is(f)
  <2>1. f = [k \in 0 .. Top |-> IF k = 0 THEN p ELSE step[k][f[k - 1]]]
      BY <1>7 DEF Through
  <2> HIDE DEF step
  <2>2. [k \in 0 .. Top |-> IF k = 0 THEN p ELSE step[k][f[k - 1]]]
          = [k \in 0 .. Top |-> IF k = 0 THEN p ELSE JoinAt(xs, f[k - 1], z, j - k, j)]
    <3>1. \A k \in 0 .. Top : (IF k = 0 THEN p ELSE step[k][f[k - 1]])
                             = (IF k = 0 THEN p ELSE JoinAt(xs, f[k - 1], z, j - k, j))
        BY <1>8, <2>1
    <3> QED
        BY <3>1
  <2> QED
      BY <2>1, <2>2
<1>10. Is(inner)
    BY <1>9
<1>11. ColumnAt(xs, p, z, j) = inner[Top]
    BY DEF ColumnAt
<1> HIDE DEF inner
<1>12. \A k \in 0 .. Top : inner[k] = IF k = 0 THEN p ELSE JoinAt(xs, inner[k - 1], z, j - k, j)
    BY <1>10
<1> DEFINE T == {k \in 0 .. Top : inner[k] \in R[k]}
<1>13. 0 \in T
  <2>1. 0 \in 0 .. Top
      BY <1>1
  <2>2. inner[0] = p
      BY <1>12, <2>1
  <2> QED
      BY <1>4, <2>1, <2>2
<1>14. ASSUME NEW k \in 0 .. Top - 1, k \in T PROVE k + 1 \in T
  <2>1. k + 1 \in 1 .. Top /\ (k + 1) - 1 = k /\ k + 1 \in 0 .. Top /\ k + 1 # 0
      BY <1>1
  <2>2. inner[k + 1] = JoinAt(xs, inner[k], z, j - (k + 1), j)
      BY <1>12, <2>1
  <2>3. inner[k] \in R[(k + 1) - 1]
      BY <1>14, <2>1
  <2> QED
      BY <1>5, <2>1, <2>2, <2>3
<1> HIDE DEF T
<1>15. Top \in T
  <2>1. \A k \in 0 .. Top : k \in T
      BY <1>1, <1>13, <1>14, UpTo
  <2> QED
      BY <1>1, <2>1
<1>16. FittedAt(inner[Top], xs, ys, z, j, Top)
  <2>1. Top \in 0 .. Top /\ inner[Top] \in R[Top]
      BY <1>1, <1>15 DEF T
  <2> QED
      BY <1>3, <2>1
<1>17. \A i \in 1 .. Len(xs) : Reach(i, j, Top) = Reach(i, j + 1, 0)
    BY <1>1 DEF Reach
<1>18. FittedAt(inner[Top], xs, ys, z, j + 1, 0)
  <2> HIDE DEF Top
  <2> QED
      BY <1>16, <1>17 DEF FittedAt
<1> QED
    BY <1>11, <1>18

\* interpolate_at finds the value at z of the polynomial interpolate finds.
THEOREM InterpolateAtIs ==
    ASSUME NEW xs \in Seq(Scalars), xs # <<>>, Apart(xs), NEW ys \in Seq(Scalars), Len(ys) = Len(xs),
           NEW z \in Scalars
    PROVE  InterpolateAt(xs, ys, z) = Eval(Interpolate(xs, ys), z)
<1> DEFINE n == Len(xs)
           Top == n - 1
           R == [k \in 0 .. Top |-> {q \in [1 .. n -> Scalars] : FittedAt(q, xs, ys, z, k + 2, 0)}]
           step == [k \in 1 .. Top |-> [q \in R[k - 1] |-> ColumnAt(xs, q, z, k + 1)]]
           Is(f) == f = [j \in 1 .. n |-> IF j = 1 THEN ys ELSE ColumnAt(xs, f[j - 1], z, j)]
           vals == CHOOSE f : Is(f)
<1>1. /\ n \in Nat \ {0} /\ Top \in Nat /\ DOMAIN ys = 1 .. n /\ n = Top + 1
      /\ \A i \in 1 .. n : xs[i] \in Scalars /\ ys[i] \in Scalars
    BY ScalarSeq
<1>2. InterpolateAt(xs, ys, z) = vals[n][1]
    BY DEF InterpolateAt
<1>3. \A k \in 0 .. Top : \A q : q \in R[k] <=> FittedAt(q, xs, ys, z, k + 2, 0)
    BY DEF FittedAt
<1>20. \A j \in 2 .. n : \A q :
             FittedAt(q, xs, ys, z, j, 0) => FittedAt(ColumnAt(xs, q, z, j), xs, ys, z, j + 1, 0)
    BY ColumnAtFits
<1> HIDE DEF R, n, Top
<1>4. ys \in R[0]
  <2>1. ASSUME NEW i \in 1 .. n
        PROVE  \E q \in Seq(Scalars) : Fits(q, xs, ys, i, Reach(i, 0 + 2, 0)) /\ ys[i] = Eval(q, z)
    <3>1. Reach(i, 0 + 2, 0) = i /\ i - i + 1 = 1 /\ \A m \in i .. i : m = i
        BY <1>1 DEF Reach
    <3>2. ys[i] \in Scalars /\ xs[i] \in Scalars
        BY <1>1
    <3>3. /\ <<ys[i]>> \in Seq(Scalars) /\ Len(<<ys[i]>>) = 1
          /\ Eval(<<ys[i]>>, xs[i]) = ys[i] /\ Eval(<<ys[i]>>, z) = ys[i]
        BY <3>2, EvalOne
    <3>4. Fits(<<ys[i]>>, xs, ys, i, i)
        BY <3>1, <3>3 DEF Fits
    <3> QED
        BY <3>1, <3>3, <3>4
  <2>2. ys \in [1 .. n -> Scalars]
      BY <1>1
  <2>3. FittedAt(ys, xs, ys, z, 0 + 2, 0)
      BY <2>1, <2>2 DEF FittedAt, n
  <2>4. 0 \in 0 .. Top
      BY <1>1
  <2> QED
      BY <1>3, <2>3, <2>4
<1>5. ASSUME NEW k \in 1 .. Top, NEW q \in R[k - 1] PROVE ColumnAt(xs, q, z, k + 1) \in R[k]
  <2>1. k - 1 \in 0 .. Top /\ k \in 0 .. Top /\ k + 1 \in 2 .. n /\ (k - 1) + 2 = k + 1 /\ (k + 1) + 1 = k + 2
      BY <1>1
  <2>2. FittedAt(q, xs, ys, z, k + 1, 0)
      BY <1>3, <2>1
  <2>3. FittedAt(ColumnAt(xs, q, z, k + 1), xs, ys, z, k + 2, 0)
      BY <1>20, <2>1, <2>2
  <2> QED
      BY <1>3, <2>1, <2>3
<1>6. \A k \in 1 .. Top : step[k] \in [R[k - 1] -> R[k]]
    BY <1>5
<1>7. PICK g : Through(g, Top, R, ys, step)
    BY <1>1, <1>4, <1>6, SomeThrough
<1>8. ASSUME NEW k \in 0 .. Top PROVE g[k] = IF k = 0 THEN ys ELSE ColumnAt(xs, g[k - 1], z, k + 1)
  <2>1. g[k] = (IF k = 0 THEN ys ELSE step[k][g[k - 1]]) /\ g[k] \in R[k]
      BY <1>7 DEF Through
  <2>2. CASE k # 0
    <3>1. k \in 1 .. Top /\ k - 1 \in 0 .. Top
        BY <1>1, <2>2
    <3>2. g[k - 1] \in R[k - 1]
        BY <1>7, <3>1 DEF Through
    <3>3. step[k][g[k - 1]] = ColumnAt(xs, g[k - 1], z, k + 1)
        BY <3>1, <3>2
    <3> QED
        BY <2>1, <2>2, <3>3
  <2> QED
      BY <2>1, <2>2
<1> DEFINE f == [j \in 1 .. n |-> g[j - 1]]
<1>9. Is(f)
  <2>1. ASSUME NEW j \in 1 .. n PROVE f[j] = IF j = 1 THEN ys ELSE ColumnAt(xs, f[j - 1], z, j)
    <3>1. j - 1 \in 0 .. Top /\ (j - 1 = 0 <=> j = 1) /\ (j - 1) + 1 = j
        BY <1>1
    <3>2. g[j - 1] = IF j = 1 THEN ys ELSE ColumnAt(xs, g[(j - 1) - 1], z, j)
        BY <1>8, <3>1
    <3>3. j # 1 => j - 1 \in 1 .. n
        BY <1>1
    <3>4. j # 1 => f[j - 1] = g[(j - 1) - 1]
      <4> HIDE DEF f
      <4>1. \A i \in 1 .. n : f[i] = g[i - 1]
          BY DEF f
      <4> QED
          BY <3>3, <4>1
    <3>5. f[j] = g[j - 1]
        OBVIOUS
    <3> HIDE DEF f
    <3> QED
        BY <3>2, <3>4, <3>5
  <2>2. f = [j \in 1 .. n |-> f[j]]
      OBVIOUS
  <2> HIDE DEF f
  <2>3. [j \in 1 .. n |-> f[j]] = [j \in 1 .. n |-> IF j = 1 THEN ys ELSE ColumnAt(xs, f[j - 1], z, j)]
      BY <2>1
  <2> QED
      BY <2>2, <2>3
<1>10. Is(vals)
    BY <1>9
<1> HIDE DEF vals, f
<1>12. \A j \in 1 .. n : vals[j] = IF j = 1 THEN ys ELSE ColumnAt(xs, vals[j - 1], z, j)
    BY <1>10
<1> DEFINE T == {k \in 0 .. Top : vals[k + 1] \in R[k]}
<1>13. 0 \in T
  <2>1. 0 \in 0 .. Top /\ 0 + 1 = 1 /\ 1 \in 1 .. n
      BY <1>1
  <2>2. vals[1] = ys
      BY <1>12, <2>1
  <2> QED
      BY <1>4, <2>1, <2>2
<1>14. ASSUME NEW k \in 0 .. Top - 1, k \in T PROVE k + 1 \in T
  <2>1. k + 1 \in 1 .. Top /\ (k + 1) - 1 = k /\ k + 1 \in 0 .. Top /\ (k + 1) + 1 \in 1 .. n
        /\ (k + 1) + 1 # 1 /\ ((k + 1) + 1) - 1 = k + 1
      BY <1>1
  <2>2. vals[(k + 1) + 1] = ColumnAt(xs, vals[k + 1], z, (k + 1) + 1)
      BY <1>12, <2>1
  <2>3. vals[k + 1] \in R[(k + 1) - 1]
      BY <1>14, <2>1
  <2> QED
      BY <1>5, <2>1, <2>2, <2>3
<1> HIDE DEF T
<1>15. vals[n] \in R[Top]
  <2>1. \A k \in 0 .. Top : k \in T
      BY <1>1, <1>13, <1>14, UpTo
  <2>2. Top \in 0 .. Top /\ Top + 1 = n
      BY <1>1
  <2> QED
      BY <2>1, <2>2 DEF T
<1>16. FittedAt(vals[n], xs, ys, z, n + 1, 0)
  <2>1. Top \in 0 .. Top /\ Top + 2 = n + 1
      BY <1>1
  <2> QED
      BY <1>3, <1>15, <2>1
<1>17. Reach(1, n + 1, 0) = n /\ 1 \in 1 .. n
    BY <1>1 DEF Reach
<1>18. PICK q \in Seq(Scalars) : Fits(q, xs, ys, 1, n) /\ vals[n][1] = Eval(q, z)
    BY <1>16, <1>17 DEF FittedAt, n
<1>19. Fits(Interpolate(xs, ys), xs, ys, 1, n)
    BY InterpolateFits DEF n
<1>21. Eval(Interpolate(xs, ys), z) = Eval(q, z)
  <2>1. /\ 1 \in 1 .. n /\ n \in 1 .. n /\ 1 <= n /\ Len(q) <= n - 1 + 1
        /\ \A m \in 1 .. n : Eval(q, xs[m]) = ys[m]
      BY <1>1, <1>18 DEF Fits
  <2> QED
      BY <1>19, <2>1, FitsSame DEF n
<1> QED
    BY <1>2, <1>18, <1>21

-----------------------------------------------------------------------------
(* Lagrange coefficients *)

\* Every combination of two polynomials is one, no longer than both.
LEMMA SomeCombination ==
    ASSUME NEW a \in Seq(Scalars), NEW b \in Seq(Scalars), NEW u \in Int, NEW w \in Int,
           NEW n \in Nat, Len(a) <= n, Len(b) <= n
    PROVE  \E c \in Seq(Scalars) : Len(c) = n /\ Combines(c, u, a, w, b)
<1> DEFINE A == Coef(a)
           B == Coef(b)
           Item(i) == (u * A[i - 1] + w * B[i - 1]) % Prime
           c == [i \in 1 .. n |-> Item(i)]
<1>1. /\ A \in [Nat -> Int] /\ B \in [Nat -> Int]
      /\ \A k \in Nat : k >= n => A[k] = 0 /\ B[k] = 0
  <2>1. Len(a) \in Nat /\ Len(b) \in Nat
      BY CoefIs
  <2>2. \A k \in Nat : k >= n => k >= Len(a) /\ k >= Len(b)
      BY <2>1
  <2> QED
      BY <2>2, CoefIs
<1> HIDE DEF A, B
<1>2. ASSUME NEW i \in 1 .. n
      PROVE  Item(i) \in Scalars /\ Congruent(Item(i), u * A[i - 1] + w * B[i - 1])
  <2> DEFINE e == u * A[i - 1] + w * B[i - 1]
             r == e % Prime
  <2>1. e \in Int
    <3>1. A[i - 1] \in Int /\ B[i - 1] \in Int
        BY <1>1
    <3> QED
        BY <3>1
  <2> HIDE DEF e
  <2>2. r \in Scalars /\ Congruent(e, r) /\ r \in Int
      BY <2>1, ModIs, ScalarsAre
  <2> HIDE DEF r
  <2>3. Congruent(r, e)
      BY <2>1, <2>2, CongruentSym
  <2> QED
      BY <2>2, <2>3 DEF r, e
<1>3. c \in Seq(Scalars) /\ Len(c) = n /\ \A i \in 1 .. n : c[i] = Item(i)
  <2>1. \A i \in 1 .. n : Item(i) \in Scalars
      BY <1>2
  <2> HIDE DEF Item
  <2> QED
      BY <2>1
<1> HIDE DEF c
<1>4. ASSUME NEW k \in Nat PROVE Congruent(Coef(c)[k], u * A[k] + w * B[k])
  <2>1. CASE k < n
    <3>1. k + 1 \in 1 .. n /\ (k + 1) - 1 = k
        BY <2>1
    <3>2. Coef(c)[k] = c[k + 1]
        BY <1>3, <2>1, CoefIs
    <3>3. Congruent(Item(k + 1), u * A[(k + 1) - 1] + w * B[(k + 1) - 1])
      <4> HIDE DEF Item
      <4> QED
        BY <1>2, <3>1
    <3>4. c[k + 1] = Item(k + 1)
        BY <1>3, <3>1
    <3> HIDE DEF Item
    <3> QED
        BY <3>1, <3>2, <3>3, <3>4
  <2>2. CASE ~(k < n)
    <3>1. k >= n
        BY <2>2
    <3>2. Coef(c)[k] = 0
        BY <1>3, <3>1, CoefIs
    <3>3. u * 0 + w * 0 = 0
        OBVIOUS
    <3> QED
        BY <1>1, <3>1, <3>2, <3>3, CongruentSelf
  <2> QED
      BY <2>1, <2>2
<1>5. Combines(c, u, a, w, b)
    BY <1>4 DEF Combines, A, B
<1> QED
    BY <1>3, <1>5

\* Total adds the items up, one after the other.
TotalRun(sum, s) ==
    /\ sum \in [0 .. Len(s) -> Scalars] /\ sum[0] = 0
    /\ \A n \in 1 .. Len(s) : sum[n] = Plus(sum[n - 1], s[n])

\* Total is the last of its sums.
LEMMA TotalRuns ==
    ASSUME NEW s \in Seq(Scalars)
    PROVE  \E sum : TotalRun(sum, s) /\ Total(s) = sum[Len(s)]
<1> DEFINE Top == Len(s)
           step == [n \in Nat |-> [t \in Scalars |-> IF n \in 1 .. Top THEN Plus(t, s[n]) ELSE t]]
           Is(f) == f = [n \in 0 .. Top |-> IF n = 0 THEN 0 ELSE Plus(f[n - 1], s[n])]
           sum == CHOOSE f : Is(f)
<1>1. Top \in Nat /\ \A n \in 1 .. Top : s[n] \in Scalars
    BY ScalarSeq
<1>2. Total(s) = sum[Top]
    BY DEF Total
<1> HIDE DEF Top
<1>3. \A t \in Scalars, n \in 1 .. Top : Plus(t, s[n]) \in Scalars
    BY <1>1, OperationsAre, ScalarsAre
<1>4. step \in [Nat -> [Scalars -> Scalars]] /\ 0 \in Scalars
  <2>1. \A n \in Nat, t \in Scalars : (IF n \in 1 .. Top THEN Plus(t, s[n]) ELSE t) \in Scalars
      BY <1>3
  <2> QED
      BY <2>1, ScalarsAre
<1>5. PICK g : Runs(g, Top, Scalars, 0, step)
    BY <1>1, <1>4, SomeRun
<1>6. g \in [0 .. Top -> Scalars] /\ \A n \in 0 .. Top : g[n] = IF n = 0 THEN 0 ELSE step[n][g[n - 1]]
    BY <1>5 DEF Runs
<1>7. ASSUME NEW n \in 0 .. Top PROVE g[n] = IF n = 0 THEN 0 ELSE Plus(g[n - 1], s[n])
  <2>1. CASE n # 0
    <3>1. n \in 1 .. Top /\ n \in Nat /\ n - 1 \in 0 .. Top
        BY <1>1, <2>1
    <3>2. g[n - 1] \in Scalars
        BY <1>6, <3>1
    <3>3. step[n][g[n - 1]] = Plus(g[n - 1], s[n])
        BY <3>1, <3>2
    <3> QED
        BY <1>6, <2>1, <3>3
  <2> QED
      BY <1>6, <2>1
<1> HIDE DEF step
<1>8. Is(g)
    BY <1>6, <1>7
<1>9. Is(sum)
    BY <1>8
<1> HIDE DEF sum
<1>10. \A n \in 0 .. Top : sum[n] = IF n = 0 THEN 0 ELSE Plus(sum[n - 1], s[n])
    BY <1>9
<1> DEFINE T == {n \in 0 .. Top : sum[n] \in Scalars}
<1>11. 0 \in T
  <2>1. 0 \in 0 .. Top
      BY <1>1
  <2>2. sum[0] = 0
      BY <1>10, <2>1
  <2> QED
      BY <2>1, <2>2, ScalarsAre
<1>12. ASSUME NEW n \in 0 .. Top - 1, n \in T PROVE n + 1 \in T
  <2>1. n + 1 \in 1 .. Top /\ n + 1 \in 0 .. Top /\ n + 1 # 0 /\ (n + 1) - 1 = n
      BY <1>1
  <2>2. sum[n + 1] = Plus(sum[n], s[n + 1])
      BY <1>10, <2>1
  <2> QED
      BY <1>3, <1>12, <2>1, <2>2
<1> HIDE DEF T
<1>13. \A n \in 0 .. Top : n \in T
    BY <1>1, <1>11, <1>12, UpTo
<1>14. \A n \in 0 .. Top : sum[n] \in Scalars
    BY <1>13 DEF T
<1>15. sum \in [0 .. Top -> Scalars]
    BY <1>9, <1>14
<1>16. ASSUME NEW n \in 1 .. Top PROVE sum[n] = Plus(sum[n - 1], s[n])
  <2>1. n \in 0 .. Top /\ n # 0
      BY <1>1
  <2> QED
      BY <1>10, <2>1
<1>17. sum[0] = 0
  <2>1. 0 \in 0 .. Top
      BY <1>1
  <2> QED
      BY <1>10, <2>1
<1>18. TotalRun(sum, s)
    BY <1>15, <1>16, <1>17 DEF TotalRun, Top
<1> QED
    BY <1>2, <1>18 DEF Top

\* lagrange_coefficients multiplies the factors of the other points.
LagrangeFactor(x, j, z) == Times(Minus(z, x), Invert(Minus(j, x)))

\* w is what comes of multiplying them, point by point.
LagrangeRun(w, xs, j, z) ==
    /\ w \in [0 .. Len(xs) -> Scalars] /\ w[0] = 1
    /\ \A n \in 1 .. Len(xs) :
          w[n] = IF xs[n] = j THEN w[n - 1] ELSE Times(w[n - 1], LagrangeFactor(xs[n], j, z))

\* Lagrange is the last of its products.
LEMMA LagrangeRuns ==
    ASSUME NEW xs \in Seq(Scalars), NEW j \in Scalars, NEW z \in Scalars
    PROVE  \E w : LagrangeRun(w, xs, j, z) /\ Lagrange(xs, j, z) = w[Len(xs)]
<1> DEFINE Top == Len(xs)
           After(n, t) == IF xs[n] = j THEN t ELSE Times(t, LagrangeFactor(xs[n], j, z))
           step == [n \in Nat |-> [t \in Scalars |-> IF n \in 1 .. Top THEN After(n, t) ELSE t]]
           Is(f) == f = [n \in 0 .. Top |-> IF n = 0 THEN 1
                                          ELSE IF xs[n] = j THEN f[n - 1]
                                          ELSE Times(f[n - 1], Times(Minus(z, xs[n]), Invert(Minus(j, xs[n]))))]
           w == CHOOSE f : Is(f)
<1>1. Top \in Nat /\ \A n \in 1 .. Top : xs[n] \in Scalars
    BY ScalarSeq
<1>2. Lagrange(xs, j, z) = w[Top]
    BY DEF Lagrange
<1> HIDE DEF Top
<1>3. ASSUME NEW t \in Scalars, NEW n \in 1 .. Top PROVE After(n, t) \in Scalars
  <2> DEFINE x == xs[n]
  <2>1. x \in Scalars
      BY <1>1
  <2> HIDE DEF x
  <2>2. ASSUME x # j PROVE Times(t, LagrangeFactor(x, j, z)) \in Scalars
    <3>1. Invert(Minus(j, x)) \in Scalars
        BY <2>1, <2>2, InverseUndone
    <3>2. Minus(z, x) \in Scalars
        BY <2>1, OperationsAre, ScalarsAre
    <3>3. LagrangeFactor(x, j, z) \in Scalars
        BY <3>1, <3>2, OperationsAre, ScalarsAre DEF LagrangeFactor
    <3> QED
        BY <3>3, OperationsAre, ScalarsAre
  <2> QED
      BY <2>2 DEF x
<1>4. step \in [Nat -> [Scalars -> Scalars]] /\ 1 \in Scalars
  <2>1. \A n \in Nat, t \in Scalars : (IF n \in 1 .. Top THEN After(n, t) ELSE t) \in Scalars
      BY <1>3
  <2> HIDE DEF After
  <2> QED
      BY <2>1, ScalarsAre
<1>5. PICK g : Runs(g, Top, Scalars, 1, step)
    BY <1>1, <1>4, SomeRun
<1>6. g \in [0 .. Top -> Scalars] /\ \A n \in 0 .. Top : g[n] = IF n = 0 THEN 1 ELSE step[n][g[n - 1]]
    BY <1>5 DEF Runs
<1>7. ASSUME NEW n \in 0 .. Top PROVE g[n] = IF n = 0 THEN 1 ELSE After(n, g[n - 1])
  <2>1. CASE n # 0
    <3>1. n \in 1 .. Top /\ n \in Nat /\ n - 1 \in 0 .. Top
        BY <1>1, <2>1
    <3>2. g[n - 1] \in Scalars
        BY <1>6, <3>1
    <3>3. step[n][g[n - 1]] = After(n, g[n - 1])
      <4> HIDE DEF After
      <4> QED
        BY <3>1, <3>2
    <3> QED
        BY <1>6, <2>1, <3>3
  <2> QED
      BY <1>6, <2>1
<1> HIDE DEF step
<1>8. Is(g)
    BY <1>6, <1>7 DEF LagrangeFactor
<1>9. Is(w)
    BY <1>8
<1> HIDE DEF w
<1>10. \A n \in 0 .. Top : w[n] = IF n = 0 THEN 1 ELSE After(n, w[n - 1])
    BY <1>9 DEF LagrangeFactor
<1> DEFINE T == {n \in 0 .. Top : w[n] \in Scalars}
<1>11. 0 \in T
  <2>1. 0 \in 0 .. Top
      BY <1>1
  <2>2. w[0] = 1
      BY <1>10, <2>1
  <2> QED
      BY <2>1, <2>2, ScalarsAre
<1>12. ASSUME NEW n \in 0 .. Top - 1, n \in T PROVE n + 1 \in T
  <2>1. n + 1 \in 1 .. Top /\ n + 1 \in 0 .. Top /\ n + 1 # 0 /\ (n + 1) - 1 = n
      BY <1>1
  <2> HIDE DEF After
  <2>2. w[n + 1] = After(n + 1, w[n])
      BY <1>10, <2>1
  <2> QED
      BY <1>3, <1>12, <2>1, <2>2
<1> HIDE DEF T
<1>13. \A n \in 0 .. Top : n \in T
    BY <1>1, <1>11, <1>12, UpTo
<1>14. \A n \in 0 .. Top : w[n] \in Scalars
    BY <1>13 DEF T
<1>15. w \in [0 .. Top -> Scalars]
    BY <1>9, <1>14
<1>16. ASSUME NEW n \in 1 .. Top PROVE w[n] = After(n, w[n - 1])
  <2>1. n \in 0 .. Top /\ n # 0
      BY <1>1
  <2> HIDE DEF After
  <2> QED
      BY <1>10, <2>1
<1>17. w[0] = 1
  <2>1. 0 \in 0 .. Top
      BY <1>1
  <2> QED
      BY <1>10, <2>1
<1>18. LagrangeRun(w, xs, j, z)
    BY <1>15, <1>16, <1>17 DEF LagrangeRun, Top
<1> QED
    BY <1>2, <1>18 DEF Top

\* The factor of a point that is not j, as a polynomial times it
LEMMA FactorIs ==
    ASSUME NEW x \in Scalars, NEW j \in Scalars, x # j, NEW z \in Scalars
    PROVE  /\ LagrangeFactor(x, j, z) \in Scalars
           /\ Congruent(LagrangeFactor(x, j, z), (-Invert(Minus(j, x))) * (x - z))
           /\ z = x => LagrangeFactor(x, j, z) = 0
           /\ z = j => LagrangeFactor(x, j, z) = 1
<1> DEFINE i == Invert(Minus(j, x))
           d == Minus(z, x)
           e == z - x
           f == Times(d, i)
           g == d * i
           h == e * i
<1>1. x \in Int /\ j \in Int /\ z \in Int /\ i \in Scalars /\ i \in Int
    BY InverseUndone, ScalarsAre
<1>2. Minus(j, x) \in Scalars \ {0} /\ Times(Minus(j, x), i) = 1
    BY InverseUndone, InverseIs
<1>3. z = j => f = 1
    BY <1>2
<1> HIDE DEF i
<1>4. d \in Scalars /\ d \in Int /\ e \in Int /\ Congruent(d, e)
  <2>1. d \in Scalars /\ Congruent(d, e)
      BY <1>1, OperationsAre
  <2>2. e \in Int
      BY <1>1
  <2> HIDE DEF d, e
  <2> QED
      BY <2>1, <2>2, ScalarsAre
<1>5. (-i) * (x - z) = h /\ (z = x => h = 0)
    BY <1>1
<1> HIDE DEF d, e
<1>6. f \in Scalars /\ Congruent(f, g)
    BY <1>1, <1>4, OperationsAre
<1>7. g \in Int /\ h \in Int /\ Congruent(g, h) /\ f \in Int
  <2>1. Congruent(g, h)
      BY <1>1, <1>4, CongruentSelf, CongruentProduct
  <2>2. f \in Int
      BY <1>6, ScalarsAre
  <2>3. g \in Int /\ h \in Int
      BY <1>1, <1>4
  <2> QED
      BY <2>1, <2>2, <2>3
<1>8. LagrangeFactor(x, j, z) = f
    BY DEF LagrangeFactor, d, i
<1> HIDE DEF f, g, h
<1>9. Congruent(f, h)
    BY <1>6, <1>7, CongruentTrans
<1>10. z = x => f = 0
    BY <1>5, <1>6, <1>9, ScalarsDiffer, ScalarsAre
<1> QED
    BY <1>3, <1>5, <1>6, <1>8, <1>9, <1>10 DEF i

\* The weight of a point is one at it and nought at the others.
LEMMA LagrangeAtPoints ==
    ASSUME NEW xs \in Seq(Scalars), Apart(xs), NEW i \in 1 .. Len(xs), NEW m \in 1 .. Len(xs)
    PROVE  Lagrange(xs, xs[i], xs[m]) = IF m = i THEN 1 ELSE 0
<1> DEFINE Top == Len(xs)
           j == xs[i]
           z == xs[m]
<1>1. Top \in Nat /\ \A n \in 1 .. Top : xs[n] \in Scalars
    BY ScalarSeq
<1>2. j \in Scalars /\ z \in Scalars /\ i \in 1 .. Top /\ m \in 1 .. Top
    BY <1>1
<1>3. \A n \in 1 .. Top : xs[n] = j => n = i
  <2>1. DOMAIN xs = 1 .. Top
      BY ScalarSeq
  <2> QED
      BY <2>1 DEF Apart
<1>4. \A n \in 1 .. Top : xs[n] = z => n = m
  <2>1. DOMAIN xs = 1 .. Top
      BY ScalarSeq
  <2> QED
      BY <2>1 DEF Apart
<1>15. j = xs[i] /\ z = xs[m]
    OBVIOUS
<1> HIDE DEF j, z
<1>5. PICK w : LagrangeRun(w, xs, j, z) /\ Lagrange(xs, j, z) = w[Top]
    BY <1>2, LagrangeRuns
<1>6. /\ w \in [0 .. Top -> Scalars] /\ w[0] = 1
      /\ \A n \in 1 .. Top :
            w[n] = IF xs[n] = j THEN w[n - 1] ELSE Times(w[n - 1], LagrangeFactor(xs[n], j, z))
    BY <1>5 DEF LagrangeRun
<1> HIDE DEF Top
<1>7. ASSUME NEW t \in Scalars PROVE Times(t, 1) = t /\ Times(t, 0) = 0 /\ \A s \in Scalars : Times(0, s) = 0
  <2>1. t \in Int /\ t * 1 = t /\ t * 0 = 0 /\ \A s \in Scalars : s \in Int /\ 0 * s = 0
      BY ScalarsAre
  <2>2. t % Prime = t /\ 0 % Prime = 0
      BY <2>1, CongruentSelf, CongruentIs, ScalarsAre
  <2> QED
      BY <2>1, <2>2 DEF Times
<1>8. CASE m = i
  <2>1. z = j
      BY <1>8, <1>15
  <2> DEFINE T == {n \in 0 .. Top : w[n] = 1}
  <2>2. 0 \in T
      BY <1>1, <1>6
  <2>3. ASSUME NEW n \in 0 .. Top - 1, n \in T PROVE n + 1 \in T
    <3>1. n + 1 \in 1 .. Top /\ (n + 1) - 1 = n /\ w[n] = 1 /\ n + 1 \in 0 .. Top
        BY <1>1, <2>3
    <3>2. w[n + 1] = IF xs[n + 1] = j THEN 1 ELSE Times(1, LagrangeFactor(xs[n + 1], j, z))
        BY <1>6, <3>1
    <3>3. xs[n + 1] # j => LagrangeFactor(xs[n + 1], j, z) = 1
        BY <1>1, <1>2, <2>1, <3>1, FactorIs
    <3>4. Times(1, 1) = 1
        BY <1>7, ScalarsAre
    <3> QED
        BY <3>1, <3>2, <3>3, <3>4
  <2> HIDE DEF T
  <2>4. Top \in T
    <3>1. \A n \in 0 .. Top : n \in T
        BY <1>1, <2>2, <2>3, UpTo
    <3> QED
        BY <1>1, <3>1
  <2> QED
      BY <1>5, <1>8, <2>4 DEF T, j, z
<1>9. CASE m # i
  <2>1. xs[m] # j
      BY <1>2, <1>3, <1>9
  <2>2. LagrangeFactor(xs[m], j, z) = 0
      BY <1>1, <1>2, <1>15, <2>1, FactorIs
  <2> DEFINE T == {n \in 0 .. Top : n >= m => w[n] = 0}
  <2>3. 0 \in T
      BY <1>1, <1>2
  <2>4. ASSUME NEW n \in 0 .. Top - 1, n \in T PROVE n + 1 \in T
    <3>1. n + 1 \in 1 .. Top /\ (n + 1) - 1 = n /\ n + 1 \in 0 .. Top /\ n \in 0 .. Top
        BY <1>1
    <3>2. w[n + 1] = IF xs[n + 1] = j THEN w[n] ELSE Times(w[n], LagrangeFactor(xs[n + 1], j, z))
        BY <1>6, <3>1
    <3>3. w[n] \in Scalars
        BY <1>6, <3>1
    <3>4. CASE n + 1 = m
      <4>1. w[n + 1] = Times(w[n], 0)
          BY <2>1, <2>2, <3>2, <3>4
      <4> QED
          BY <1>7, <3>1, <3>3, <4>1
    <3>5. CASE n >= m
      <4>1. w[n] = 0
          BY <2>4, <3>5
      <4>2. xs[n + 1] # j => LagrangeFactor(xs[n + 1], j, z) \in Scalars
          BY <1>1, <1>2, <3>1, FactorIs
      <4>3. w[n + 1] = 0
          BY <1>7, <3>2, <3>3, <4>1, <4>2
      <4> QED
          BY <3>1, <4>3
    <3>6. CASE ~(n + 1 >= m)
        BY <3>1, <3>6
    <3> QED
        BY <1>2, <3>1, <3>4, <3>5, <3>6
  <2> HIDE DEF T
  <2>5. Top \in T
    <3>1. \A n \in 0 .. Top : n \in T
        BY <1>1, <2>3, <2>4, UpTo
    <3> QED
        BY <1>1, <3>1
  <2>6. w[Top] = 0
      BY <1>2, <2>5 DEF T
  <2> QED
      BY <1>5, <1>9, <2>6 DEF j, z
<1> QED
    BY <1>8, <1>9

\* A polynomial times v and (a - X)
LEMMA SomeProduct ==
    ASSUME NEW p \in Seq(Scalars), NEW a \in Scalars, NEW v \in Int
    PROVE  \E c \in Seq(Scalars) :
              /\ Len(c) = Len(p) + 1
              /\ \A x \in Scalars : Congruent(Eval(c, x), Eval(p, x) * (v * (a - x)))
<1> DEFINE m == MulPoly(p, a)
           n == Len(p) + 1
           o == 0
<1>1. /\ m \in Seq(Scalars) /\ Len(m) = n
      /\ \A x \in Scalars : Congruent(Eval(m, x), (a - x) * Eval(p, x))
    BY MulPolyIs
<1>2. n \in Nat /\ o \in Int /\ a \in Int
    BY ScalarSeq, ScalarsAre
<1>9. o = 0
    OBVIOUS
<1> HIDE DEF m, o
<1>3. PICK c \in Seq(Scalars) : Len(c) = n /\ Combines(c, v, m, o, m)
  <2> HIDE DEF n
  <2>1. Len(m) <= n
      BY <1>1, <1>2
  <2> QED
      BY <1>1, <1>2, <2>1, SomeCombination
<1>4. ASSUME NEW x \in Scalars PROVE Congruent(Eval(c, x), Eval(p, x) * (v * (a - x)))
  <2> DEFINE e == Eval(m, x)
             f == Eval(c, x)
             y == Eval(p, x)
             d == a - x
             r == d * y
             s == v * e + o * e
             t == v * r
  <2>1. e \in Scalars /\ f \in Scalars /\ y \in Scalars /\ x \in Int
      BY <1>1, EvalIs, ScalarsAre
  <2>2. e \in Int /\ f \in Int /\ y \in Int /\ d \in Int
    <3>1. d \in Int
        BY <1>2, <2>1
    <3> HIDE DEF e, f, y, d
    <3> QED
        BY <2>1, <3>1, ScalarsAre
  <2>3. Congruent(f, s) /\ Congruent(e, r)
      BY <1>1, <1>2, <1>3, EvalLinear
  <2> HIDE DEF e, f, y, d
  <2>4. r \in Int /\ s = v * e /\ s \in Int
    <3>1. r \in Int
        BY <2>2
    <3>2. v * e \in Int /\ o * e = 0
        BY <1>9, <2>2
    <3> QED
        BY <3>1, <3>2
  <2>5. t = y * (v * d) /\ t \in Int
      BY <2>2
  <2> HIDE DEF r
  <2>6. Congruent(v * e, t)
      BY <2>2, <2>3, <2>4, CongruentSelf, CongruentProduct
  <2> HIDE DEF t
  <2>7. Congruent(s, t)
      BY <2>4, <2>6
  <2> HIDE DEF s
  <2>8. Congruent(f, t)
      BY <2>2, <2>3, <2>4, <2>5, <2>7, CongruentTrans
  <2> QED
      BY <2>5, <2>8 DEF f, y, d
<1> QED
    BY <1>3, <1>4 DEF n

\* The weight of a point is a polynomial of z with a coefficient for each of the points.
LEMMA LagrangePoly ==
    ASSUME NEW xs \in Seq(Scalars), Apart(xs), NEW i \in 1 .. Len(xs)
    PROVE  \E p \in Seq(Scalars) :
              Len(p) = Len(xs) /\ \A z \in Scalars : Lagrange(xs, xs[i], z) = Eval(p, z)
<1> DEFINE Top == Len(xs)
           j == xs[i]
           W(z) == CHOOSE w : LagrangeRun(w, xs, j, z) /\ Lagrange(xs, j, z) = w[Top]
           Up(n) == IF n < i THEN n + 1 ELSE n
           T == {n \in 0 .. Top :
                    \E p \in Seq(Scalars) : Len(p) = Up(n) /\ \A z \in Scalars : W(z)[n] = Eval(p, z)}
<1>1. Top \in Nat /\ (\A n \in 1 .. Top : xs[n] \in Scalars) /\ i \in 1 .. Top /\ DOMAIN xs = 1 .. Top
    BY ScalarSeq
<1>2. j \in Scalars
    BY <1>1
<1>3. \A n \in 1 .. Top : xs[n] = j <=> n = i
    BY <1>1 DEF Apart
<1> HIDE DEF j
<1>4. ASSUME NEW z \in Scalars
      PROVE  /\ Lagrange(xs, j, z) = W(z)[Top] /\ W(z) \in [0 .. Top -> Scalars] /\ W(z)[0] = 1
             /\ \A n \in 1 .. Top :
                   W(z)[n] = IF n = i THEN W(z)[n - 1]
                             ELSE Times(W(z)[n - 1], LagrangeFactor(xs[n], j, z))
  <2>1. LagrangeRun(W(z), xs, j, z) /\ Lagrange(xs, j, z) = W(z)[Top]
      BY <1>2, LagrangeRuns
  <2> HIDE DEF W
  <2> QED
      BY <1>3, <2>1 DEF LagrangeRun
<1> HIDE DEF W, Top
<1>5. 0 \in T
  <2>1. <<1>> \in Seq(Scalars) /\ Len(<<1>>) = 1 /\ \A z \in Scalars : Eval(<<1>>, z) = 1
      BY EvalOne, ScalarsAre
  <2>2. 0 \in 0 .. Top /\ Up(0) = 1
      BY <1>1
  <2>3. \A z \in Scalars : W(z)[0] = Eval(<<1>>, z)
      BY <1>4, <2>1
  <2> QED
      BY <2>1, <2>2, <2>3
<1>6. ASSUME NEW n \in 0 .. Top - 1, n \in T PROVE n + 1 \in T
  <2>1. PICK p \in Seq(Scalars) : Len(p) = Up(n) /\ \A z \in Scalars : W(z)[n] = Eval(p, z)
      BY <1>6
  <2>2. n + 1 \in 1 .. Top /\ n + 1 \in 0 .. Top /\ (n + 1) - 1 = n
      BY <1>1
  <2>3. CASE n + 1 = i
    <3>1. Up(n + 1) = Up(n)
        BY <1>1, <2>2, <2>3
    <3>2. ASSUME NEW z \in Scalars PROVE W(z)[n + 1] = Eval(p, z)
        BY <1>4, <2>1, <2>2, <2>3
    <3> HIDE DEF Up
    <3> QED
        BY <2>1, <2>2, <3>1, <3>2
  <2>4. CASE n + 1 # i
    <3> DEFINE a == xs[n + 1]
               v == -Invert(Minus(j, a))
    <3>1. Up(n + 1) = Up(n) + 1
        BY <1>1, <2>2, <2>4
    <3>2. a \in Scalars /\ a # j
        BY <1>1, <1>3, <2>2, <2>4
    <3> HIDE DEF a, Up, T
    <3>3. v \in Int
      <4>1. Invert(Minus(j, a)) \in Int
          BY <1>2, <3>2, InverseUndone, ScalarsAre
      <4> QED
          BY <4>1
    <3> HIDE DEF v
    <3>4. PICK c \in Seq(Scalars) :
              /\ Len(c) = Len(p) + 1
              /\ \A x \in Scalars : Congruent(Eval(c, x), Eval(p, x) * (v * (a - x)))
        BY <3>2, <3>3, SomeProduct
    <3>5. ASSUME NEW z \in Scalars PROVE W(z)[n + 1] = Eval(c, z)
      <4> DEFINE t == Eval(p, z)
                 f == LagrangeFactor(a, j, z)
                 g == v * (a - z)
                 r == Times(t, f)
                 q == t * f
                 s == t * g
                 e == Eval(c, z)
      <4>1. W(z)[n + 1] = r
        <5>1. W(z)[n + 1] = Times(W(z)[n], f)
            BY <1>4, <2>2, <2>4 DEF a
        <5>2. W(z)[n] = t
            BY <2>1
        <5> QED
            BY <5>1, <5>2
      <4>2. t \in Scalars /\ e \in Scalars
          BY EvalIs
      <4>3. f \in Scalars /\ Congruent(f, g)
          BY <1>2, <3>2, FactorIs DEF v
      <4>4. z \in Int /\ a \in Int
          BY <3>2, ScalarsAre
      <4>5. g \in Int
          BY <3>3, <4>4
      <4>6. Congruent(e, s)
          BY <3>4
      <4> HIDE DEF t, f, g, e
      <4>7. t \in Int /\ f \in Int /\ e \in Int
          BY <4>2, <4>3, ScalarsAre
      <4>8. r \in Scalars /\ Congruent(r, q)
          BY <4>7, OperationsAre
      <4>9. q \in Int /\ s \in Int /\ r \in Int
        <5>1. q \in Int /\ s \in Int
            BY <4>5, <4>7
        <5> HIDE DEF r
        <5> QED
            BY <4>8, <5>1, ScalarsAre
      <4>10. Congruent(q, s)
          BY <4>3, <4>5, <4>7, CongruentSelf, CongruentProduct
      <4> HIDE DEF r, q, s
      <4>11. r = e
          BY <4>2, <4>6, <4>7, <4>8, <4>9, <4>10, SameScalar
      <4> QED
          BY <4>1, <4>11 DEF e
    <3>6. Len(c) = Up(n + 1)
        BY <2>1, <3>1, <3>4
    <3> QED
        BY <2>2, <3>5, <3>6 DEF T
  <2> QED
      BY <2>3, <2>4
<1> HIDE DEF T
<1>7. Top \in T
  <2>1. \A n \in 0 .. Top : n \in T
      BY <1>1, <1>5, <1>6, UpTo
  <2> QED
      BY <1>1, <2>1
<1>8. Up(Top) = Top
    BY <1>1
<1> HIDE DEF Up
<1>9. PICK p \in Seq(Scalars) : Len(p) = Top /\ \A z \in Scalars : W(z)[Top] = Eval(p, z)
    BY <1>7, <1>8 DEF T
<1> QED
    BY <1>4, <1>9 DEF Top, j

\* What multi_exp adds up
Products(s, t, n) == [i \in 1 .. n |-> Times(s[i], t[i])]

\* multi_exp of two sequences of one length
LEMMA MultiExpIs ==
    ASSUME NEW s, NEW t, NEW n \in Nat, Len(s) = n, Len(t) = n
    PROVE  MultiExp(s, t) = Total(Products(s, t, n))
    BY DEF MultiExp, Products

\* They are scalars.
LEMMA ProductsAre ==
    ASSUME NEW n \in Nat, NEW s, NEW t, \A i \in 1 .. n : s[i] \in Scalars /\ t[i] \in Scalars
    PROVE  /\ Products(s, t, n) \in Seq(Scalars) /\ Len(Products(s, t, n)) = n
           /\ \A i \in 1 .. n : Products(s, t, n)[i] = Times(s[i], t[i])
<1> DEFINE Item(i) == Times(s[i], t[i])
<1>1. \A i \in 1 .. n : Item(i) \in Scalars
    BY OperationsAre, ScalarsAre
<1> HIDE DEF Item
<1> DEFINE p == [i \in 1 .. n |-> Item(i)]
<1>2. p \in Seq(Scalars) /\ Len(p) = n /\ \A i \in 1 .. n : p[i] = Item(i)
    BY <1>1
<1>3. Products(s, t, n) = p
    BY DEF Products, Item
<1> HIDE DEF p
<1> QED
    BY <1>2, <1>3 DEF Item

\* One more product in a sum
LEMMA SumStep ==
    ASSUME NEW a \in Scalars, NEW b \in Scalars, NEW c \in Scalars, NEW e \in Scalars,
           NEW u \in Int, u = 1, Congruent(e, u * a + b * c)
    PROVE  Plus(a, Times(b, c)) = e
<1> DEFINE p == Times(b, c)
           q == b * c
           r == Plus(a, p)
           s == a + p
           t == u * a + q
<1>1. a \in Int /\ b \in Int /\ c \in Int /\ e \in Int
    BY ScalarsAre
<1>2. p \in Scalars /\ Congruent(p, q) /\ q \in Int
    BY <1>1, OperationsAre
<1>3. p \in Int
    BY <1>2, ScalarsAre
<1>4. t = a + q /\ Congruent(e, t)
  <2>1. Congruent(e, t)
      OBVIOUS
  <2> HIDE DEF q
  <2> QED
      BY <1>1, <1>2, <2>1
<1> HIDE DEF p, q, t
<1>5. Congruent(s, t)
    BY <1>1, <1>2, <1>3, <1>4, CongruentSelf, CongruentSum
<1>6. r \in Scalars /\ Congruent(r, s) /\ s \in Int /\ t \in Int
    BY <1>1, <1>2, <1>3, <1>4, OperationsAre
<1> HIDE DEF r, s
<1>7. r = e
    BY <1>1, <1>4, <1>5, <1>6, SameScalar
<1> QED
    BY <1>7 DEF r, p

\* lagrange_coefficients makes of the values at the points the value at z of the
\* polynomial that interpolate finds.
THEOREM LagrangeAtIs ==
    ASSUME NEW xs \in Seq(Scalars), xs # <<>>, Apart(xs), NEW ys \in Seq(Scalars), Len(ys) = Len(xs),
           NEW z \in Scalars
    PROVE  LagrangeAt(xs, ys, z) = Eval(Interpolate(xs, ys), z)
<1> DEFINE n == Len(xs)
           Weight(i, x) == Lagrange(xs, xs[i], x)
           s(x) == Products(ys, [k \in 1 .. n |-> Weight(k, x)], n)
           Sum(x) == CHOOSE sum : TotalRun(sum, s(x)) /\ Total(s(x)) = sum[n]
           T == {k \in 0 .. n :
                    /\ \E p \in Seq(Scalars) : Len(p) <= n /\ \A x \in Scalars : Sum(x)[k] = Eval(p, x)
                    /\ \A m \in 1 .. n : Sum(xs[m])[k] = IF m <= k THEN ys[m] ELSE 0}
<1>1. /\ n \in Nat \ {0} /\ DOMAIN xs = 1 .. n /\ Len(ys) = n
      /\ \A i \in 1 .. n : xs[i] \in Scalars /\ ys[i] \in Scalars
    BY ScalarSeq
<1>2. ASSUME NEW i \in 1 .. n
      PROVE  \E q \in Seq(Scalars) : Len(q) = n /\ \A x \in Scalars : Weight(i, x) = Eval(q, x)
    BY LagrangePoly
<1>3. ASSUME NEW i \in 1 .. n, NEW x \in Scalars PROVE Weight(i, x) \in Scalars
  <2> HIDE DEF Weight, n
  <2> QED
      BY <1>2, EvalIs
<1>4. ASSUME NEW i \in 1 .. n, NEW m \in 1 .. n PROVE Weight(i, xs[m]) = IF m = i THEN 1 ELSE 0
    BY LagrangeAtPoints
<1>5. ASSUME NEW x \in Scalars PROVE LagrangeAt(xs, ys, x) = Total(s(x))
  <2>1. LagrangeAt(xs, ys, x) = MultiExp(ys, [k \in 1 .. n |-> Weight(k, x)])
      BY <1>1 DEF LagrangeAt
  <2>2. Len([k \in 1 .. n |-> Weight(k, x)]) = n
    <3> HIDE DEF Weight, n
    <3> QED
        BY <1>1
  <2> HIDE DEF Weight, n
  <2> QED
      BY <1>1, <2>1, <2>2, MultiExpIs
<1> HIDE DEF Weight, n
<1>6. ASSUME NEW x \in Scalars
      PROVE  /\ s(x) \in Seq(Scalars) /\ Len(s(x)) = n
             /\ \A i \in 1 .. n : s(x)[i] = Times(ys[i], Weight(i, x))
  <2> DEFINE t == [k \in 1 .. n |-> Weight(k, x)]
  <2>1. \A i \in 1 .. n : ys[i] \in Scalars /\ t[i] \in Scalars /\ t[i] = Weight(i, x)
    <3>1. \A i \in 1 .. n : t[i] = Weight(i, x)
        OBVIOUS
    <3> HIDE DEF t
    <3> QED
        BY <1>1, <1>3, <3>1
  <2> HIDE DEF t
  <2>2. s(x) \in Seq(Scalars) /\ Len(s(x)) = n /\ \A i \in 1 .. n : s(x)[i] = Times(ys[i], t[i])
      BY <1>1, <2>1, ProductsAre DEF t
  <2> HIDE DEF s
  <2> QED
      BY <2>1, <2>2
<1> HIDE DEF s
<1>7. ASSUME NEW x \in Scalars
      PROVE  /\ Total(s(x)) = Sum(x)[n] /\ Sum(x) \in [0 .. n -> Scalars] /\ Sum(x)[0] = 0
             /\ \A k \in 1 .. n : Sum(x)[k] = Plus(Sum(x)[k - 1], Times(ys[k], Weight(k, x)))
  <2>1. TotalRun(Sum(x), s(x)) /\ Total(s(x)) = Sum(x)[n]
      BY <1>6, TotalRuns
  <2> HIDE DEF Sum
  <2>2. /\ Sum(x) \in [0 .. n -> Scalars] /\ Sum(x)[0] = 0
        /\ \A k \in 1 .. n : Sum(x)[k] = Plus(Sum(x)[k - 1], s(x)[k])
      BY <1>6, <2>1 DEF TotalRun
  <2> QED
      BY <1>6, <2>1, <2>2
<1> HIDE DEF Sum
<1>8. 0 \in T
  <2>1. <<>> \in Seq(Scalars) /\ Len(<<>>) <= n /\ \A x \in Scalars : Eval(<<>>, x) = 0
      BY <1>1 DEF Eval
  <2>2. \A x \in Scalars : Sum(x)[0] = 0
      BY <1>7
  <2>3. \A m \in 1 .. n : Sum(xs[m])[0] = IF m <= 0 THEN ys[m] ELSE 0
      BY <1>1, <2>2
  <2>4. 0 \in 0 .. n
      BY <1>1
  <2> QED
      BY <2>1, <2>2, <2>3, <2>4
<1>9. ASSUME NEW k \in 0 .. n - 1, k \in T PROVE k + 1 \in T
  <2>1. PICK p \in Seq(Scalars) : Len(p) <= n /\ \A x \in Scalars : Sum(x)[k] = Eval(p, x)
      BY <1>9
  <2>2. k + 1 \in 1 .. n /\ k + 1 \in 0 .. n /\ (k + 1) - 1 = k /\ k \in Int
      BY <1>1
  <2>3. PICK q \in Seq(Scalars) : Len(q) = n /\ \A x \in Scalars : Weight(k + 1, x) = Eval(q, x)
      BY <1>2, <2>2
  <2> DEFINE y == ys[k + 1]
             u == 1
  <2>4. y \in Scalars /\ y \in Int /\ u \in Int /\ u = 1
      BY <1>1, <2>2, ScalarsAre
  <2> HIDE DEF y, u
  <2>5. PICK c \in Seq(Scalars) : Len(c) = n /\ Combines(c, u, p, y, q)
    <3>1. n \in Nat /\ Len(p) <= n /\ Len(q) <= n
        BY <1>1, <2>1, <2>3
    <3> QED
        BY <2>4, <3>1, SomeCombination
  <2>6. ASSUME NEW x \in Scalars PROVE Sum(x)[k + 1] = Eval(c, x)
    <3>1. Sum(x)[k + 1] = Plus(Eval(p, x), Times(y, Eval(q, x)))
        BY <1>7, <2>1, <2>2, <2>3 DEF y
    <3>2. Eval(p, x) \in Scalars /\ Eval(q, x) \in Scalars /\ Eval(c, x) \in Scalars
        BY EvalIs
    <3>3. Congruent(Eval(c, x), u * Eval(p, x) + y * Eval(q, x))
        BY <2>4, <2>5, EvalLinear
    <3> QED
        BY <2>4, <3>1, <3>2, <3>3, SumStep
  <2>7. ASSUME NEW m \in 1 .. n PROVE Sum(xs[m])[k + 1] = IF m <= k + 1 THEN ys[m] ELSE 0
    <3> DEFINE a == Sum(xs[m])[k]
               c0 == Weight(k + 1, xs[m])
    <3>1. xs[m] \in Scalars /\ a = (IF m <= k THEN ys[m] ELSE 0) /\ ys[m] \in Scalars /\ a \in Scalars
        BY <1>1, <1>9, ScalarsAre
    <3>2. c0 = (IF m = k + 1 THEN 1 ELSE 0)
        BY <1>4, <2>2
    <3>3. Sum(xs[m])[k + 1] = Plus(a, Times(y, c0))
        BY <1>7, <2>2, <3>1 DEF y
    <3> DEFINE e == IF m <= k + 1 THEN ys[m] ELSE 0
    <3>4. e \in Scalars /\ e \in Int /\ e = u * a + y * c0 /\ c0 \in Scalars
      <4>1. a \in Int /\ y \in Int
          BY <2>4, <3>1, ScalarsAre
      <4>2. CASE m = k + 1
        <5>1. a = 0 /\ c0 = 1 /\ y = ys[m] /\ e = ys[m]
            BY <2>2, <3>1, <3>2, <4>2 DEF y
        <5> HIDE DEF a, c0, e
        <5> QED
            BY <2>4, <4>1, <5>1, ScalarsAre
      <4>3. CASE m # k + 1
        <5>1. c0 = 0 /\ e = a
            BY <1>1, <2>2, <3>1, <3>2, <4>3
        <5> HIDE DEF a, c0, e
        <5> QED
            BY <2>4, <3>1, <4>1, <5>1, ScalarsAre
      <4> QED
          BY <4>2, <4>3
    <3> HIDE DEF a, c0, e
    <3>5. Congruent(e, u * a + y * c0)
        BY <3>4, CongruentSelf
    <3>6. Plus(a, Times(y, c0)) = e
        BY <2>4, <3>1, <3>4, <3>5, SumStep
    <3> QED
        BY <3>3, <3>6 DEF e
  <2>8. \E r \in Seq(Scalars) : Len(r) <= n /\ \A x \in Scalars : Sum(x)[k + 1] = Eval(r, x)
    <3>1. Len(c) <= n
        BY <1>1, <2>5
    <3> QED
        BY <2>6, <3>1
  <2> QED
      BY <2>2, <2>7, <2>8
<1> HIDE DEF T
<1>10. n \in T
  <2>1. \A k \in 0 .. n : k \in T
      BY <1>1, <1>8, <1>9, UpTo
  <2> QED
      BY <1>1, <2>1
<1>11. PICK p \in Seq(Scalars) : Len(p) <= n /\ \A x \in Scalars : Sum(x)[n] = Eval(p, x)
    BY <1>10 DEF T
<1>12. ASSUME NEW m \in 1 .. n PROVE Eval(p, xs[m]) = ys[m]
  <2>1. Sum(xs[m])[n] = ys[m]
    <3>1. Sum(xs[m])[n] = IF m <= n THEN ys[m] ELSE 0
        BY <1>10 DEF T
    <3>2. m <= n
        BY <1>1
    <3> QED
        BY <3>1, <3>2
  <2>2. xs[m] \in Scalars
      BY <1>1
  <2> QED
      BY <1>11, <2>1, <2>2
<1>13. Fits(Interpolate(xs, ys), xs, ys, 1, n)
    BY InterpolateFits DEF n
<1>14. Eval(Interpolate(xs, ys), z) = Eval(p, z)
  <2>1. 1 \in 1 .. Len(xs) /\ n \in 1 .. Len(xs) /\ 1 <= n /\ Len(p) <= n - 1 + 1
    <3>1. Len(p) \in Nat
        BY ScalarSeq
    <3> QED
        BY <1>1, <1>11, <3>1 DEF n
  <2> QED
      BY <1>12, <1>13, <2>1, FitsSame
<1> QED
    BY <1>5, <1>7, <1>11, <1>14

-----------------------------------------------------------------------------
(* Samples *)

\* A product is zero only if a factor is.
LEMMA NoDivisorsOfZero ==
    ASSUME NEW a \in Scalars \ {0}, NEW b \in Scalars \ {0}
    PROVE  Times(a, b) \in Scalars \ {0}
<1> DEFINE p == a * b
           t == Times(a, b)
<1>1. a \in Int /\ b \in Int /\ a \in Scalars /\ b \in Scalars
    BY ScalarsAre
<1>2. p \in Int /\ t \in Scalars /\ Congruent(t, p)
    BY <1>1, OperationsAre
<1>3. ASSUME t = 0 PROVE FALSE
  <2> HIDE DEF p, t
  <2>1. Congruent(p, 0)
      BY <1>2, <1>3, CongruentSym, ScalarsAre
  <2>2. Congruent(a, 0) \/ Congruent(b, 0)
      BY <1>1, <2>1, Euclid DEF p
  <2>3. a = 0 \/ b = 0
      BY <1>1, <2>2, ScalarsDiffer, ScalarsAre
  <2> QED
      BY <2>3
<1> QED
    BY <1>2, <1>3

\* The polynomial each coefficient of which is multiplied by m
Scaled(m, c) == [i \in DOMAIN c |-> Times(m, c[i])]

\* Its values are multiplied by m too.
LEMMA ScaledIs ==
    ASSUME NEW m \in Scalars, NEW c \in Seq(Scalars)
    PROVE  /\ Scaled(m, c) \in Seq(Scalars) /\ Len(Scaled(m, c)) = Len(c)
           /\ \A i \in 1 .. Len(c) : Scaled(m, c)[i] = Times(m, c[i])
           /\ \A x \in Scalars : Eval(Scaled(m, c), x) = Times(m, Eval(c, x))
<1> DEFINE n == Len(c)
           Item(i) == Times(m, c[i])
           d == Scaled(m, c)
           s == [i \in 1 .. n |-> Item(i)]
           o == 0
<1>1. n \in Nat /\ DOMAIN c = 1 .. n /\ (\A i \in 1 .. n : c[i] \in Scalars /\ c[i] \in Int) /\ m \in Int
    BY ScalarSeq, ScalarsAre
<1>2. d = s
    BY <1>1 DEF Scaled
<1>9. o \in Int /\ o = 0
    OBVIOUS
<1> HIDE DEF n, d, o
<1>3. ASSUME NEW i \in 1 .. n PROVE Item(i) \in Scalars /\ Congruent(Item(i), m * c[i])
    BY <1>1, OperationsAre
<1>4. s \in Seq(Scalars) /\ Len(s) = n /\ \A i \in 1 .. n : s[i] = Item(i)
  <2>1. \A i \in 1 .. n : Item(i) \in Scalars
      BY <1>3
  <2> HIDE DEF Item
  <2> QED
      BY <1>1, <2>1
<1> HIDE DEF s, Item
<1>5. ASSUME NEW k \in Nat PROVE Congruent(Coef(d)[k], m * Coef(c)[k] + o * Coef(c)[k])
  <2> DEFINE a == Coef(c)[k]
             b == Coef(d)[k]
  <2>1. a \in Int
      BY CoefIs
  <2>2. Congruent(b, m * a)
    <3>1. CASE k < n
      <4>1. k + 1 \in 1 .. n /\ a = c[k + 1]
          BY <1>1, <3>1, CoefIs DEF n
      <4>2. b = d[k + 1]
          BY <1>2, <1>4, <3>1, CoefIs
      <4> HIDE DEF a, b
      <4> QED
          BY <1>2, <1>3, <1>4, <4>1, <4>2
    <3>2. CASE ~(k < n)
      <4>1. k >= n
          BY <1>1, <3>2
      <4>2. a = 0 /\ b = 0
          BY <1>2, <1>4, <4>1, CoefIs DEF n
      <4>3. m * 0 = 0
          BY <1>1
      <4> HIDE DEF a, b
      <4> QED
          BY <4>2, <4>3, CongruentSelf
    <3> QED
        BY <3>1, <3>2
  <2> HIDE DEF a, b
  <2>3. m * a + o * a = m * a
      BY <1>1, <1>9, <2>1
  <2> QED
      BY <2>2, <2>3 DEF a, b
<1>6. Combines(d, m, c, o, c)
    BY <1>5 DEF Combines
<1>7. ASSUME NEW x \in Scalars PROVE Eval(d, x) = Times(m, Eval(c, x))
  <2> DEFINE e == Eval(c, x)
             f == Eval(d, x)
             t == Times(m, e)
             g == m * e
  <2>1. Congruent(f, m * e + o * e)
      BY <1>1, <1>2, <1>4, <1>6, <1>9, EvalLinear
  <2>2. e \in Scalars /\ f \in Scalars
      BY <1>2, <1>4, EvalIs
  <2> HIDE DEF e, f
  <2>3. e \in Int
      BY <2>2, ScalarsAre
  <2>4. m * e + o * e = g /\ g \in Int
      BY <1>1, <1>9, <2>3
  <2>5. t \in Scalars /\ Congruent(t, g)
      BY <1>1, <2>3, OperationsAre
  <2>6. Congruent(f, g)
      BY <2>1, <2>4
  <2> HIDE DEF t, g
  <2>7. f = t
      BY <2>2, <2>4, <2>5, <2>6, CongruentSelf, SameScalar
  <2> QED
      BY <2>7 DEF f, t, e
<1> QED
    BY <1>2, <1>4, <1>7 DEF d, n, Item

\* With one fixed value, at nought, the points of a sample are those up to its degree.
LEMMA SamplePointsAre ==
    ASSUME NEW d \in Nat, NEW fixed, DOMAIN fixed = {0}
    PROVE  SamplePoints(d, fixed) = 0 .. d
<1> DEFINE Is(points) == /\ DOMAIN fixed \subseteq points
                         /\ Cardinality(points) = d + 1
                         /\ \A x \in points \ DOMAIN fixed : 0 .. x \subseteq points
<1>1. IsFiniteSet(0 .. d) /\ Cardinality(0 .. d) = d + 1
  <2>1. IsFiniteSet(0 .. d) /\ Cardinality(0 .. d) = IF 0 > d THEN 0 ELSE d - 0 + 1
      BY FS_Interval
  <2> QED
      BY <2>1
<1>2. 0 .. d \cup DOMAIN fixed = 0 .. d
    OBVIOUS
<1>3. Is(0 .. d)
    BY <1>1
<1>4. ASSUME NEW points \in SUBSET (0 .. d), Is(points) PROVE points = 0 .. d
  <2>1. Cardinality(points) = Cardinality(0 .. d)
      BY <1>1, <1>4
  <2> QED
      BY <1>1, <2>1, FS_Subset
<1> DEFINE p == CHOOSE points \in SUBSET (0 .. d) : Is(points)
<1>5. p = 0 .. d
  <2>1. \E points \in SUBSET (0 .. d) : Is(points)
      BY <1>3
  <2> HIDE DEF Is
  <2>2. p \in SUBSET (0 .. d) /\ Is(p)
      BY <2>1
  <2> HIDE DEF p
  <2> QED
      BY <1>4, <2>2
<1>6. SamplePoints(d, fixed) = p
    BY <1>2 DEF SamplePoints
<1> QED
    BY <1>5, <1>6

\* An order of the points is a sequence that has each once.
LEMMA OrderIs ==
    ASSUME NEW d \in Nat, d < Prime, NEW order \in SetToSeqs(0 .. d)
    PROVE  /\ order \in Seq(Scalars) /\ Len(order) = d + 1 /\ Apart(order)
           /\ \A i \in 1 .. d + 1 : order[i] \in 0 .. d
           /\ \A x \in 0 .. d : \E i \in 1 .. d + 1 : order[i] = x
<1> DEFINE n == d + 1
           D == 1 .. n
           S == 0 .. d
<1>1. IsFiniteSet(S) /\ Cardinality(S) = n
  <2>1. IsFiniteSet(S) /\ Cardinality(S) = IF 0 > d THEN 0 ELSE d - 0 + 1
      BY FS_Interval
  <2> QED
      BY <2>1
<1>2. order \in [D -> S] /\ \A i, j \in D : i # j => order[i] # order[j]
    BY <1>1 DEF SetToSeqs
<1>3. n \in Nat /\ S \subseteq Scalars
    BY PrimeIs DEF Scalars
<1>4. IsFiniteSet(D) /\ Cardinality(D) = n
  <2> HIDE DEF n
  <2>1. IsFiniteSet(D) /\ Cardinality(D) = IF 1 > n THEN 0 ELSE n - 1 + 1
      BY <1>3, FS_Interval
  <2> QED
      BY <1>3, <2>1
<1> HIDE DEF n, S
<1>5. order \in Seq(Scalars) /\ Len(order) = n /\ DOMAIN order = D
    BY <1>2, <1>3
<1>6. Apart(order)
    BY <1>2, <1>5 DEF Apart
<1> HIDE DEF D
<1>7. order \in Injection(D, S)
    BY <1>2 DEF Injection, IsInjective
<1>8. order \in Surjection(D, S)
    BY <1>1, <1>4, <1>7, FS_Injection
<1>9. \A x \in S : \E i \in D : order[i] = x
    BY <1>8 DEF Surjection
<1> QED
    BY <1>2, <1>5, <1>6, <1>9 DEF D, S, n

\* There is an order.
LEMMA SomeOrder ==
    ASSUME NEW d \in Nat PROVE SetToSeqs(0 .. d) # {}
<1> DEFINE n == d + 1
           f == [i \in 1 .. n |-> i - 1]
<1>1. Cardinality(0 .. d) = n
  <2>1. IsFiniteSet(0 .. d) /\ Cardinality(0 .. d) = IF 0 > d THEN 0 ELSE d - 0 + 1
      BY FS_Interval
  <2> QED
      BY <2>1
<1>2. f \in [1 .. n -> 0 .. d] /\ \A i, j \in 1 .. n : i # j => f[i] # f[j]
    OBVIOUS
<1>3. f \in SetToSeqs(0 .. d)
    BY <1>1, <1>2 DEF SetToSeqs
<1> QED
    BY <1>3

\* The polynomials that share a key: those with it at nought and a coefficient at most for
\* each holder that it takes.
Shares(f, sk, t) ==
    /\ f \in Seq(Scalars) /\ Len(f) <= t /\ (Len(f) # 0 => f[Len(f)] # 0)
    /\ Eval(f, 0) = sk

\* sample finds the polynomials that share the key, and every one of them.
THEOREM SamplesAre ==
    ASSUME NEW d \in Nat, d < Prime, NEW sk \in Scalars, NEW f
    PROVE  f \in Samples(d, [x \in {0} |-> sk]) <=> Shares(f, sk, d + 1)
<1> DEFINE fixed == [x \in {0} |-> sk]
           P == 0 .. d
           Values == {value \in [P -> Scalars] : value[0] = sk}
           At(order, value) == [i \in DOMAIN order |-> value[order[i]]]
           Found(order, value) == Interpolate(order, At(order, value))
<1>1. Samples(d, fixed) =
        {Trim(Found(order, value)) : order \in SetToSeqs(P), value \in Values}
  <2>1. DOMAIN fixed = {0} /\ fixed[0] = sk
      OBVIOUS
  <2>2. SamplePoints(d, fixed) = P
      BY <2>1, SamplePointsAre
  <2>3. Values = {value \in [P -> Scalars] : \A x \in DOMAIN fixed : value[x] = fixed[x]}
      BY <2>1
  <2> HIDE DEF fixed, P, Values
  <2> QED
      BY <2>2, <2>3 DEF Samples
<1>2. ASSUME NEW order \in SetToSeqs(P), NEW value \in Values
      PROVE  /\ order \in Seq(Scalars) /\ Len(order) = d + 1 /\ Apart(order) /\ order # <<>>
             /\ At(order, value) \in Seq(Scalars) /\ Len(At(order, value)) = d + 1
             /\ \A i \in 1 .. d + 1 : order[i] \in P /\ At(order, value)[i] = value[order[i]]
             /\ Fits(Found(order, value), order, At(order, value), 1, d + 1)
  <2>1. /\ order \in Seq(Scalars) /\ Len(order) = d + 1 /\ Apart(order)
        /\ \A i \in 1 .. d + 1 : order[i] \in 0 .. d
      BY OrderIs
  <2> DEFINE n == d + 1
  <2>2. n \in Nat \ {0} /\ DOMAIN order = 1 .. n /\ order # <<>>
    <3>1. DOMAIN order = 1 .. Len(order)
        BY <2>1, ScalarSeq
    <3>2. d + 1 \in Nat \ {0}
        OBVIOUS
    <3> QED
        BY <2>1, <3>1, <3>2
  <2> DEFINE s == At(order, value)
  <2>3. \A i \in 1 .. n : order[i] \in P /\ value[order[i]] \in Scalars
      BY <2>1
  <2> HIDE DEF n, P
  <2>4. s \in Seq(Scalars) /\ Len(s) = n /\ \A i \in 1 .. n : s[i] = value[order[i]]
      BY <2>2, <2>3
  <2> HIDE DEF s
  <2>5. Fits(Interpolate(order, s), order, s, 1, n)
      BY <2>1, <2>2, <2>4, InterpolateFits DEF n
  <2> QED
      BY <2>1, <2>2, <2>3, <2>4, <2>5 DEF n, s
<1>3. ASSUME NEW order \in SetToSeqs(P), NEW value \in Values
      PROVE  Shares(Trim(Found(order, value)), sk, d + 1)
  <2> DEFINE g == Found(order, value)
             h == Trim(g)
  <2>1. g \in Seq(Scalars) /\ Len(g) = d + 1
      BY <1>2 DEF Fits
  <2>2. /\ h \in Seq(Scalars) /\ Len(h) <= d + 1 /\ (Len(h) # 0 => h[Len(h)] # 0)
        /\ \A k \in Nat : Coef(h)[k] = Coef(g)[k]
      BY <2>1, TrimIs
  <2>3. PICK i \in 1 .. d + 1 : order[i] = 0
      BY OrderIs
  <2>4. Eval(g, 0) = sk
    <3>1. At(order, value)[i] = value[0]
        BY <1>2, <2>3
    <3>2. Eval(g, order[i]) = At(order, value)[i]
        BY <1>2 DEF Fits
    <3> QED
        BY <2>3, <3>1, <3>2
  <2>5. Eval(h, 0) = Eval(g, 0)
      BY <2>1, <2>2, ScalarsAre, SameCoefsEval
  <2> QED
      BY <2>2, <2>4, <2>5 DEF Shares
<1>4. ASSUME Shares(f, sk, d + 1)
      PROVE  \E order \in SetToSeqs(P), value \in Values : f = Trim(Found(order, value))
  <2>1. PICK order \in SetToSeqs(P) : TRUE
      BY SomeOrder
  <2> DEFINE value == [x \in P |-> Eval(f, x)]
             g == Found(order, value)
  <2>2. /\ f \in Seq(Scalars) /\ Len(f) <= d + 1 /\ (Len(f) # 0 => f[Len(f)] # 0)
        /\ Eval(f, 0) = sk
      BY <1>4 DEF Shares
  <2>3. value \in Values
    <3>1. 0 \in P /\ P \subseteq Scalars
        BY PrimeIs DEF Scalars
    <3>2. \A x \in P : Eval(f, x) \in Scalars
        BY <2>2, <3>1, EvalIs
    <3> QED
        BY <2>2, <3>1, <3>2
  <2>4. \A x \in P : value[x] = Eval(f, x)
      OBVIOUS
  <2> HIDE DEF value
  <2>5. Fits(g, order, At(order, value), 1, d + 1)
      BY <1>2, <2>3
  <2>6. \A k \in Nat : Coef(g)[k] = Coef(f)[k]
    <3>1. \A m \in 1 .. d + 1 : Eval(f, order[m]) = At(order, value)[m]
        BY <1>2, <2>3, <2>4
    <3>2. order \in Seq(Scalars) /\ Apart(order) /\ Len(order) = d + 1
        BY <1>2, <2>3
    <3>3. 1 \in 1 .. Len(order) /\ d + 1 \in 1 .. Len(order) /\ 1 <= d + 1 /\ Len(f) <= (d + 1) - 1 + 1
        BY <2>2, <3>2
    <3> HIDE DEF At, Found
    <3> QED
        BY <2>2, <2>5, <3>1, <3>2, <3>3, FitsSame
  <2>7. /\ Trim(g) \in Seq(Scalars) /\ (Len(Trim(g)) # 0 => Trim(g)[Len(Trim(g))] # 0)
        /\ \A k \in Nat : Coef(Trim(g))[k] = Coef(g)[k]
    <3>1. g \in Seq(Scalars)
        BY <2>5 DEF Fits
    <3> QED
        BY <3>1, TrimIs
  <2>8. Trim(g) = f
      BY <2>2, <2>6, <2>7, SameCoefs
  <2> QED
      BY <2>3, <2>8
<1> HIDE DEF P, Values, Found
<1> QED
    BY <1>1, <1>3, <1>4

-----------------------------------------------------------------------------
(* Powers that are committed to *)

\* What is raised to the powers of x
LEMMA PowersRuns ==
    ASSUME NEW x \in Scalars, NEW len \in Nat
    PROVE  /\ Len(Powers(x, len)) = len
           /\ \A i \in 1 .. len : /\ Powers(x, len)[i] \in Scalars
                                  /\ Congruent(Powers(x, len)[i], PowersOf(x)[i - 1])
<1> DEFINE pow == PowersOf(x)
           Is(f) == f = [i \in 1 .. len |-> IF i = 1 THEN 1 ELSE Times(f[i - 1], x)]
           power == CHOOSE f : Is(f)
           step == [n \in Nat |-> [t \in Scalars |-> Times(t, x)]]
<1>1. x \in Int /\ pow \in [Nat -> Int] /\ pow[0] = 1 /\ \A n \in Nat : pow[n + 1] = pow[n] * x
    BY ScalarsAre, PowersAre
<1>2. step \in [Nat -> [Scalars -> Scalars]] /\ 1 \in Scalars
  <2>1. \A t \in Scalars : Times(t, x) \in Scalars
      BY OperationsAre, ScalarsAre
  <2> QED
      BY <2>1, ScalarsAre
<1>3. PICK g : Runs(g, len, Scalars, 1, step)
    BY <1>2, SomeRun
<1>4. g \in [0 .. len -> Scalars] /\ \A n \in 0 .. len : g[n] = IF n = 0 THEN 1 ELSE step[n][g[n - 1]]
    BY <1>3 DEF Runs
<1>5. ASSUME NEW n \in 0 .. len PROVE g[n] = IF n = 0 THEN 1 ELSE Times(g[n - 1], x)
  <2>1. CASE n # 0
    <3>1. n \in Nat /\ n - 1 \in 0 .. len
        BY <2>1
    <3>2. g[n - 1] \in Scalars
        BY <1>4, <3>1
    <3>3. step[n][g[n - 1]] = Times(g[n - 1], x)
        BY <3>1, <3>2
    <3> QED
        BY <1>4, <2>1, <3>3
  <2> QED
      BY <1>4, <2>1
<1> HIDE DEF step
<1> DEFINE f == [i \in 1 .. len |-> g[i - 1]]
<1>6. Is(f)
  <2>1. ASSUME NEW i \in 1 .. len PROVE f[i] = IF i = 1 THEN 1 ELSE Times(f[i - 1], x)
    <3>1. i - 1 \in 0 .. len /\ (i - 1 = 0 <=> i = 1)
        OBVIOUS
    <3>2. g[i - 1] = IF i = 1 THEN 1 ELSE Times(g[(i - 1) - 1], x)
        BY <1>5, <3>1
    <3>3. i # 1 => i - 1 \in 1 .. len
        OBVIOUS
    <3>4. \A k \in 1 .. len : f[k] = g[k - 1]
        OBVIOUS
    <3> HIDE DEF f
    <3> QED
        BY <3>2, <3>3, <3>4
  <2>2. f = [i \in 1 .. len |-> f[i]]
      OBVIOUS
  <2> HIDE DEF f
  <2>3. [i \in 1 .. len |-> f[i]] = [i \in 1 .. len |-> IF i = 1 THEN 1 ELSE Times(f[i - 1], x)]
      BY <2>1
  <2> QED
      BY <2>2, <2>3
<1>7. Is(power)
    BY <1>6
<1> HIDE DEF power, f
<1>8. \A i \in 1 .. len : power[i] = IF i = 1 THEN 1 ELSE Times(power[i - 1], x)
    BY <1>7
<1>9. Powers(x, len) = [i \in 1 .. len |-> power[i]]
  <2>1. power = CHOOSE h : Is(h)
      BY DEF power
  <2> QED
      BY <2>1 DEF Powers
<1> HIDE DEF pow
<1> DEFINE T == {n \in 0 .. len : n = 0 \/ (power[n] \in Scalars /\ Congruent(power[n], pow[n - 1]))}
<1>10. 0 \in T
    OBVIOUS
<1>11. ASSUME NEW n \in 0 .. len - 1, n \in T PROVE n + 1 \in T
  <2>1. n + 1 \in 1 .. len /\ n + 1 \in 0 .. len /\ (n + 1) - 1 = n /\ n \in Nat
      OBVIOUS
  <2>2. CASE n = 0
    <3>1. power[n + 1] = 1
        BY <1>8, <2>1, <2>2
    <3>2. pow[(n + 1) - 1] = 1
        BY <1>1, <2>1, <2>2
    <3> QED
        BY <2>1, <3>1, <3>2, CongruentSelf, ScalarsAre
  <2>3. CASE n # 0
    <3> DEFINE s == power[n]
               p == pow[n - 1]
               t == Times(s, x)
               u == s * x
               v == p * x
    <3>1. s \in Scalars /\ Congruent(s, p) /\ n - 1 \in Nat /\ (n - 1) + 1 = n
        BY <1>11, <2>1, <2>3
    <3>2. power[n + 1] = t
        BY <1>8, <2>1, <2>3
    <3>3. pow[n] = v /\ p \in Int
        BY <1>1, <3>1
    <3>4. s \in Int
        BY <3>1, ScalarsAre
    <3> HIDE DEF s, p
    <3>5. t \in Scalars /\ Congruent(t, u)
        BY <1>1, <3>4, OperationsAre
    <3>6. t \in Int
        BY <3>5, ScalarsAre
    <3>7. u \in Int /\ v \in Int /\ Congruent(u, v)
        BY <1>1, <3>1, <3>3, <3>4, CongruentSelf, CongruentProduct
    <3> HIDE DEF t, u, v
    <3>8. Congruent(t, v)
        BY <3>5, <3>6, <3>7, CongruentTrans
    <3> QED
        BY <2>1, <3>2, <3>3, <3>5, <3>8
  <2> QED
      BY <2>2, <2>3
<1> HIDE DEF T
<1>12. \A n \in 0 .. len : n \in T
    BY <1>10, <1>11, UpTo
<1>13. \A i \in 1 .. len : power[i] \in Scalars /\ Congruent(power[i], pow[i - 1])
  <2>1. SUFFICES ASSUME NEW i \in 1 .. len
                 PROVE  power[i] \in Scalars /\ Congruent(power[i], pow[i - 1])
      OBVIOUS
  <2>2. i \in 0 .. len /\ i # 0
      OBVIOUS
  <2> QED
      BY <1>12, <2>2 DEF T
<1> QED
    BY <1>9, <1>13 DEF pow

\* The sum of the coefficients times the powers is what eval finds.
LEMMA TotalIs ==
    ASSUME NEW c \in Seq(Scalars), NEW x \in Scalars, NEW s \in Seq(Scalars), Len(s) = Len(c),
           \A i \in 1 .. Len(c) : Congruent(s[i], c[i] * PowersOf(x)[i - 1])
    PROVE  Total(s) = Eval(c, x)
<1> DEFINE n == Len(c)
           a == Coef(c)
           S == Sums(a, x)
           pow == PowersOf(x)
<1>1. /\ n \in Nat /\ Len(s) = n /\ x \in Int
      /\ \A i \in 1 .. n : s[i] \in Scalars /\ s[i] \in Int /\ c[i] \in Int
    BY ScalarSeq, ScalarsAre
<1>2. a \in [Nat -> Int] /\ \A k \in Nat : k < n => a[k] = c[k + 1]
    BY CoefIs
<1>3. pow \in [Nat -> Int]
    BY <1>1, PowersAre
<1>4. Congruent(Eval(c, x), S[n]) /\ Eval(c, x) \in Scalars
    BY <1>1, EvalIs
<1> HIDE DEF a
<1>5. S \in [Nat -> Int] /\ S[0] = 0 /\ \A k \in Nat : S[k + 1] = S[k] + a[k] * pow[k]
    BY <1>1, <1>2, SumsAre
<1>6. \A i \in 1 .. n : Congruent(s[i], c[i] * pow[i - 1])
    OBVIOUS
<1> HIDE DEF n, S, pow
<1>7. PICK sum : TotalRun(sum, s) /\ Total(s) = sum[n]
    BY <1>1, TotalRuns
<1>8. /\ sum \in [0 .. n -> Scalars] /\ sum[0] = 0
      /\ \A k \in 1 .. n : sum[k] = Plus(sum[k - 1], s[k])
    BY <1>1, <1>7 DEF TotalRun
<1> DEFINE T == {k \in 0 .. n : Congruent(sum[k], S[k])}
<1>9. 0 \in T
  <2>1. Congruent(0, 0)
      BY CongruentSelf
  <2> QED
      BY <1>1, <1>5, <1>8, <2>1
<1>10. ASSUME NEW k \in 0 .. n - 1, k \in T PROVE k + 1 \in T
  <2>1. k + 1 \in 1 .. n /\ k + 1 \in 0 .. n /\ k \in 0 .. n /\ (k + 1) - 1 = k /\ k \in Nat /\ k < n
      BY <1>1
  <2> DEFINE p == sum[k]
             t == s[k + 1]
             y == a[k] * pow[k]
             r == Plus(p, t)
             u == p + t
             z == S[k]
             v == z + y
  <2>2. sum[k + 1] = r /\ p \in Scalars
      BY <1>8, <2>1
  <2>3. S[k + 1] = v /\ z \in Int
      BY <1>5, <2>1
  <2>4. y \in Int /\ t \in Int /\ Congruent(t, y)
    <3>1. a[k] = c[k + 1] /\ a[k] \in Int /\ pow[k] \in Int
        BY <1>2, <1>3, <2>1
    <3>2. Congruent(t, c[k + 1] * pow[k])
        BY <1>6, <2>1
    <3> QED
        BY <1>1, <2>1, <3>1, <3>2
  <2>5. Congruent(p, z)
      BY <1>10
  <2>6. p \in Int
      BY <2>2, ScalarsAre
  <2> HIDE DEF p, t, y, z
  <2>7. r \in Scalars /\ Congruent(r, u)
      BY <2>4, <2>6, OperationsAre
  <2>8. r \in Int
      BY <2>7, ScalarsAre
  <2>9. u \in Int /\ v \in Int /\ Congruent(u, v)
      BY <2>3, <2>4, <2>5, <2>6, CongruentSum
  <2> HIDE DEF r, u, v
  <2>10. Congruent(r, v)
      BY <2>7, <2>8, <2>9, CongruentTrans
  <2> QED
      BY <2>1, <2>2, <2>3, <2>10
<1> HIDE DEF T
<1>11. n \in T
  <2>1. \A k \in 0 .. n : k \in T
      BY <1>1, <1>9, <1>10, UpTo
  <2> QED
      BY <1>1, <2>1
<1> DEFINE e == Eval(c, x)
           z == S[n]
           t == sum[n]
<1>12. Congruent(t, z) /\ Congruent(e, z) /\ z \in Int /\ t \in Scalars /\ e \in Scalars
  <2>1. n \in Nat /\ n \in 0 .. n
      BY <1>1
  <2> QED
      BY <1>4, <1>5, <1>8, <1>11, <2>1 DEF T
<1> HIDE DEF e, z, t
<1>13. t = e
    BY <1>12, CongruentSelf, SameScalar
<1> QED
    BY <1>7, <1>13 DEF t, e

\* multi_exp with the powers of x is the value at x.
LEMMA MultiExpEval ==
    ASSUME NEW c \in Seq(Scalars), NEW x \in Scalars, NEW len \in Nat, Len(c) <= len
    PROVE  MultiExp(Powers(x, len), c) = Eval(c, x) /\ MultiExp(c, Powers(x, len)) = Eval(c, x)
<1> DEFINE n == Len(c)
           p == Powers(x, len)
           pow == PowersOf(x)
           Shorter(a, b) == IF a < b THEN a ELSE b
<1>1. n \in Nat /\ n <= len /\ x \in Int /\ \A i \in 1 .. n : c[i] \in Scalars /\ c[i] \in Int
    BY ScalarSeq, ScalarsAre
<1>2. Len(p) = len /\ \A i \in 1 .. len : p[i] \in Scalars /\ Congruent(p[i], pow[i - 1])
    BY PowersRuns
<1>3. pow \in [Nat -> Int]
    BY <1>1, PowersAre
<1>4. Shorter(Len(p), Len(c)) = n /\ Shorter(Len(c), Len(p)) = n
  <2> HIDE DEF p
  <2> QED
      BY <1>1, <1>2
<1>5. MultiExp(p, c) = Total(Products(p, c, n)) /\ MultiExp(c, p) = Total(Products(c, p, n))
    BY <1>4 DEF MultiExp, Products
<1> HIDE DEF n, p, pow
<1>6. \A i \in 1 .. n : p[i] \in Scalars /\ c[i] \in Scalars
    BY <1>1, <1>2
<1>7. /\ Products(p, c, n) \in Seq(Scalars) /\ Len(Products(p, c, n)) = n
      /\ \A i \in 1 .. n : Products(p, c, n)[i] = Times(p[i], c[i])
    BY <1>1, <1>6, ProductsAre
<1>8. /\ Products(c, p, n) \in Seq(Scalars) /\ Len(Products(c, p, n)) = n
      /\ \A i \in 1 .. n : Products(c, p, n)[i] = Times(c[i], p[i])
    BY <1>1, <1>6, ProductsAre
<1>9. ASSUME NEW i \in 1 .. n
      PROVE  /\ Congruent(Times(p[i], c[i]), c[i] * pow[i - 1])
             /\ Congruent(Times(c[i], p[i]), c[i] * pow[i - 1])
  <2> DEFINE a == c[i]
             b == p[i]
             e == pow[i - 1]
             s == Times(b, a)
             t == Times(a, b)
             u == b * a
             v == a * e
  <2>1. i - 1 \in Nat /\ i \in 1 .. len
      BY <1>1
  <2>2. a \in Int /\ b \in Scalars /\ e \in Int /\ Congruent(b, e)
      BY <1>1, <1>2, <1>3, <2>1
  <2> HIDE DEF a, b, e
  <2>3. b \in Int
      BY <2>2, ScalarsAre
  <2>4. s \in Scalars /\ Congruent(s, u) /\ t \in Scalars /\ Congruent(t, a * b)
      BY <2>2, <2>3, OperationsAre
  <2>5. a * b = u /\ u \in Int /\ v \in Int
      BY <2>2, <2>3
  <2>6. Congruent(a * b, v)
      BY <2>2, <2>3, CongruentSelf, CongruentProduct
  <2>7. s \in Int /\ t \in Int /\ Congruent(u, v) /\ Congruent(t, u)
      BY <2>4, <2>5, <2>6, ScalarsAre
  <2> HIDE DEF s, t, u, v
  <2>8. Congruent(s, v) /\ Congruent(t, v)
      BY <2>4, <2>5, <2>7, CongruentTrans
  <2> QED
      BY <2>8 DEF s, t, v, a, b, e
<1>10. Total(Products(p, c, n)) = Eval(c, x)
  <2>1. \A i \in 1 .. n : Congruent(Products(p, c, n)[i], c[i] * PowersOf(x)[i - 1])
      BY <1>7, <1>9 DEF pow
  <2> QED
      BY <1>7, <2>1, TotalIs DEF n
<1>11. Total(Products(c, p, n)) = Eval(c, x)
  <2>1. \A i \in 1 .. n : Congruent(Products(c, p, n)[i], c[i] * PowersOf(x)[i - 1])
      BY <1>8, <1>9 DEF pow
  <2> QED
      BY <1>8, <2>1, TotalIs DEF n
<1> QED
    BY <1>5, <1>10, <1>11 DEF p

\* Feldman's check adds up to what eval finds.
LEMMA EvalPowersIs ==
    ASSUME NEW c \in Seq(Scalars), NEW x \in Scalars
    PROVE  EvalPowers(c, x) = Eval(c, x)
<1>1. Len(c) \in Nat
    BY ScalarSeq
<1>2. CASE c = <<>>
    BY <1>2 DEF EvalPowers, Eval
<1>3. CASE c # <<>>
  <2>1. EvalPowers(c, x) = MultiExp(c, Powers(x, Len(c)))
      BY <1>3 DEF EvalPowers
  <2>2. Len(c) <= Len(c)
      BY <1>1
  <2> QED
      BY <1>1, <2>1, <2>2, MultiExpEval
<1> QED
    BY <1>2, <1>3

-----------------------------------------------------------------------------
(* Division, and the witness of an opening *)

\* d is c with a more at coefficient k and b more at the next.
Adds(d, c, k, a, b) ==
    \A m \in Nat :
        Congruent(Coef(d)[m], Coef(c)[m] + (IF m = k THEN a ELSE IF m = k + 1 THEN b ELSE 0))

\* The value changes by as much.
LEMMA EvalAdds ==
    ASSUME NEW c \in Seq(Scalars), NEW d \in Seq(Scalars), NEW k \in Nat, NEW a \in Int, NEW b \in Int,
           Adds(d, c, k, a, b), NEW x \in Scalars
    PROVE  /\ PowersOf(x)[k] \in Int
           /\ Congruent(Eval(d, x), Eval(c, x) + (a + b * x) * PowersOf(x)[k])
<1> DEFINE C == Coef(c)
           D == Coef(d)
           More(m) == IF m = k THEN a ELSE IF m = k + 1 THEN b ELSE 0
           e == [m \in Nat |-> C[m] + More(m)]
           pow == PowersOf(x)
           S == Sums(C, x)
           R == Sums(e, x)
           Z == Sums(D, x)
           Top == Len(c) + Len(d) + k + 2
           ec == Eval(c, x)
           ed == Eval(d, x)
           p == pow[k]
           g == (a + b * x) * p
<1>1. /\ C \in [Nat -> Int] /\ D \in [Nat -> Int] /\ Len(c) \in Nat /\ Len(d) \in Nat /\ x \in Int
    BY CoefIs, ScalarsAre
<1>2. \A m \in Nat : Congruent(D[m], C[m] + More(m))
    BY DEF Adds
<1>3. pow \in [Nat -> Int] /\ \A n \in Nat : pow[n + 1] = pow[n] * x
    BY <1>1, PowersAre
<1>4. Top \in Nat /\ Top >= Len(c) /\ Top >= Len(d) /\ Top >= k + 2
    BY <1>1
<1>5. Congruent(ec, S[Top]) /\ Congruent(ed, Z[Top]) /\ ec \in Scalars /\ ed \in Scalars
    BY <1>4, EvalIs
<1> HIDE DEF C, D, Top
<1>6. e \in [Nat -> Int] /\ \A m \in Nat : e[m] = C[m] + More(m) /\ Congruent(D[m], e[m])
  <2>4. \A m \in Nat : C[m] \in Int /\ More(m) \in Int
      BY <1>1
  <2>1. \A m \in Nat : C[m] + More(m) \in Int
    <3> HIDE DEF More
    <3> QED
        BY <2>4
  <2> HIDE DEF More
  <2>2. \A m \in Nat : e[m] = C[m] + More(m)
      OBVIOUS
  <2>3. e \in [Nat -> Int]
      BY <2>1
  <2> HIDE DEF e
  <2> QED
      BY <1>2, <2>2, <2>3
<1> HIDE DEF e, pow
<1>7. /\ S \in [Nat -> Int] /\ S[0] = 0 /\ \A n \in Nat : S[n + 1] = S[n] + C[n] * pow[n]
      /\ R \in [Nat -> Int] /\ R[0] = 0 /\ \A n \in Nat : R[n + 1] = R[n] + e[n] * pow[n]
    BY <1>1, <1>6, SumsAre DEF pow
<1>8. Z \in [Nat -> Int] /\ Congruent(Z[Top], R[Top])
    BY <1>1, <1>4, <1>6, SumsAre, SumsCongruent
<1>9. p \in Int /\ pow[k + 1] = p * x
    BY <1>3
<1> HIDE DEF S, R, Z
<1> DEFINE Extra(n) == (IF n > k THEN a * p ELSE 0) + (IF n > k + 1 THEN b * (p * x) ELSE 0)
           T == {n \in Nat : R[n] = S[n] + Extra(n)}
<1> HIDE DEF p
<1>10. 0 \in T
    BY <1>7
<1>11. ASSUME NEW n \in Nat, n \in T PROVE n + 1 \in T
  <2> DEFINE q == pow[n]
             s == S[n]
             r == R[n]
             v == C[n]
             w == More(n)
             y == p * x
             l == a * p
             o == b * y
  <2>1. q \in Int /\ s \in Int /\ r \in Int /\ v \in Int /\ w \in Int
      BY <1>1, <1>3, <1>7
  <2>2. y \in Int /\ l \in Int /\ o \in Int
    <3>1. y \in Int /\ l \in Int
        BY <1>1, <1>9
    <3> HIDE DEF y
    <3> QED
        BY <3>1
  <2>3. S[n + 1] = s + v * q /\ R[n + 1] = r + (v + w) * q
      BY <1>6, <1>7
  <2>4. r = s + (IF n > k THEN l ELSE 0) + (IF n > k + 1 THEN o ELSE 0)
    <3>1. r = s + Extra(n)
        BY <1>11
    <3> HIDE DEF r, s, l, o
    <3> QED
        BY <2>1, <2>2, <3>1 DEF l, o, y
  <2>5. n = k => w * q = l
      BY DEF p
  <2>6. n = k + 1 => w * q = o
      BY <1>9
  <2>7. n # k /\ n # k + 1 => w * q = 0
      BY <2>1
  <2> DEFINE z == w * q
             f == v * q
  <2>8. z \in Int /\ f \in Int /\ (v + w) * q = f + z
    <3> HIDE DEF q, v, w
    <3> QED
        BY <2>1
  <2>9. R[n + 1] = S[n + 1] + (IF n + 1 > k THEN l ELSE 0) + (IF n + 1 > k + 1 THEN o ELSE 0)
    <3> HIDE DEF q, s, r, v, w, y, l, o, z
    <3>1. R[n + 1] = r + f + z /\ S[n + 1] = s + f
      <4> HIDE DEF f
      <4> QED
          BY <2>1, <2>3, <2>8 DEF f
    <3> HIDE DEF f
    <3>2. (n = k => z = l) /\ (n = k + 1 => z = o) /\ (n # k /\ n # k + 1 => z = 0)
        BY <2>5, <2>6, <2>7 DEF z
    <3> QED
        BY <2>1, <2>2, <2>4, <2>8, <3>1, <3>2
  <2>10. S[n + 1] \in Int
      BY <1>7
  <2>11. R[n + 1] = S[n + 1] + Extra(n + 1)
    <3>1. Extra(n + 1) = (IF n + 1 > k THEN l ELSE 0) + (IF n + 1 > k + 1 THEN o ELSE 0)
        OBVIOUS
    <3> DEFINE i == IF n + 1 > k THEN l ELSE 0
               j == IF n + 1 > k + 1 THEN o ELSE 0
    <3>2. i \in Int /\ j \in Int
        BY <2>2
    <3>3. R[n + 1] = S[n + 1] + i + j /\ Extra(n + 1) = i + j
        BY <2>9, <3>1
    <3> HIDE DEF i, j, Extra
    <3> QED
        BY <2>10, <3>2, <3>3
  <2> QED
      BY <2>11
<1> HIDE DEF T
<1>12. R[Top] = S[Top] + Extra(Top)
  <2>1. Top \in T
      BY <1>4, <1>10, <1>11, Induct
  <2> QED
      BY <2>1 DEF T
<1>13. Extra(Top) = g
  <2>1. Top > k /\ Top > k + 1
      BY <1>4
  <2>2. Extra(Top) = a * p + b * (p * x)
      BY <2>1
  <2>3. b * (p * x) = (b * x) * p /\ b * x \in Int
      BY <1>1, <1>9
  <2> DEFINE h == b * x
  <2>4. h \in Int /\ b * (p * x) = h * p
      BY <2>3
  <2> HIDE DEF h
  <2>5. a * p + h * p = (a + h) * p
      BY <1>9, <2>4
  <2> QED
      BY <2>2, <2>4, <2>5 DEF h
<1> HIDE DEF Extra
<1>14. g \in Int
    BY <1>1, <1>9
<1> HIDE DEF g, ec, ed
<1> DEFINE t == S[Top]
           u == R[Top]
           z == Z[Top]
           w == ec + g
<1>15. /\ t \in Int /\ u = t + g /\ z \in Int /\ Congruent(z, u) /\ Congruent(ec, t) /\ Congruent(ed, z)
       /\ ec \in Int /\ ed \in Int
    BY <1>4, <1>5, <1>7, <1>8, <1>12, <1>13, ScalarsAre
<1> HIDE DEF t, u, z
<1>16. Congruent(u, w) /\ u \in Int /\ w \in Int
  <2>1. Congruent(t, ec)
      BY <1>15, CongruentSym
  <2>2. Congruent(t + g, ec + g)
      BY <1>14, <1>15, <2>1, CongruentSelf, CongruentSum
  <2> QED
      BY <1>14, <1>15, <2>2
<1> HIDE DEF w
<1>17. Congruent(ed, w)
    BY <1>15, <1>16, CongruentTrans
<1> QED
    BY <1>9, <1>17 DEF w, g, p, pow, ec, ed

\* One is neutral.
LEMMA TimesOne ==
    ASSUME NEW a \in Scalars
    PROVE  Times(a, 1) = a /\ Times(1, a) = a /\ Minus(a, a) = 0 /\ Invert(1) = 1
<1>1. a \in Int /\ a * 1 = a /\ 1 * a = a /\ a - a = 0
    BY ScalarsAre
<1>2. \A b \in Scalars : b % Prime = b
    BY CongruentSelf, CongruentIs, ScalarsAre
<1>3. Times(a, 1) = a /\ Times(1, a) = a /\ Minus(a, a) = 0
    BY <1>1, <1>2, ScalarsAre DEF Times, Minus
<1>4. Invert(1) \in Scalars /\ Times(1, Invert(1)) = 1
    BY InverseIs, ScalarsAre
<1>5. Times(1, Invert(1)) = Invert(1)
  <2> DEFINE i == Invert(1)
  <2>1. i \in Scalars /\ i \in Int
      BY <1>4, ScalarsAre
  <2> HIDE DEF i
  <2>2. 1 * i = i /\ i % Prime = i
      BY <1>2, <2>1
  <2>3. Times(1, i) = i
      BY <2>2 DEF Times
  <2> QED
      BY <2>3 DEF i
<1> QED
    BY <1>3, <1>4, <1>5

\* A state of the division of f by (u + X): what is divided and what is left make f.
Whole(st, f, u, y) == Congruent(Eval(f, y), Eval(st.q, y) * (u + y) + Eval(st.r, y))

\* That holds after n rounds, each of which makes the remainder shorter.
Divided(st, f, u, n) ==
    /\ st.r \in Seq(Scalars) /\ (Len(st.r) <= 1 \/ Len(st.r) <= Len(f) - n)
    /\ st.q \in Seq(Scalars) /\ Len(st.q) = Len(f) - 1 /\ Len(st.r) <= Len(f)
    /\ \A k \in 1 .. Len(st.q) : k < Len(st.r) => st.q[k] = 0
    /\ \A y \in Scalars : Whole(st, f, u, y)

\* The leading term of the remainder moves to the quotient.
LEMMA TermMoves ==
    ASSUME NEW e \in Int, NEW q \in Int, NEW r \in Int, NEW u \in Int, NEW y \in Int, NEW p \in Int,
           NEW l \in Int, NEW t \in Int, NEW s \in Int, NEW o \in Int, o = 0,
           Congruent(e, q * (u + y) + r),
           Congruent(t, q + (l + o * y) * p),
           Congruent(s, r + (-(l * u) + (-l) * y) * p)
    PROVE  Congruent(e, t * (u + y) + s)
<1> DEFINE v == u + y
           lp == l * p
           qn == q + lp
           rn == r - lp * v
           w == q * v + r
           z == qn * v + rn
           x == t * v + s
<1>1. v \in Int /\ lp \in Int
    OBVIOUS
<1>2. (l + o * y) * p = lp /\ (-(l * u) + (-l) * y) * p = -(lp * v)
  <2>1. o * y = 0
      OBVIOUS
  <2>2. (-(l * u) + (-l) * y) = -(l * v)
      OBVIOUS
  <2>3. (-(l * v)) * p = -(lp * v)
    <3> HIDE DEF v
    <3> QED
        BY <1>1
  <2> QED
      BY <2>1, <2>2, <2>3
<1>3. Congruent(t, qn)
    BY <1>2
<1>4. r + (-(lp * v)) = rn /\ rn \in Int /\ qn \in Int
  <2> HIDE DEF lp, v
  <2> QED
      BY <1>1
<1>5. Congruent(s, rn)
    BY <1>2, <1>4
<1>6. z = w /\ w \in Int /\ z \in Int /\ x \in Int
  <2> HIDE DEF lp, v
  <2>1. qn * v = q * v + lp * v
      BY <1>1
  <2>2. q * v \in Int /\ lp * v \in Int /\ t * v \in Int
      BY <1>1
  <2> QED
      BY <2>1, <2>2
<1> HIDE DEF qn, rn
<1>7. Congruent(e, w)
    OBVIOUS
<1> HIDE DEF w, v
<1>8. Congruent(t * v, qn * v)
    BY <1>1, <1>3, <1>4, CongruentSelf, CongruentProduct
<1> DEFINE tv == t * v
           qv == qn * v
<1>9. tv \in Int /\ qv \in Int /\ Congruent(tv, qv)
    BY <1>1, <1>4, <1>8
<1>10. x = tv + s /\ z = qv + rn
    OBVIOUS
<1> HIDE DEF tv, qv
<1>11. Congruent(x, z)
    BY <1>4, <1>5, <1>9, <1>10, CongruentSum
<1> HIDE DEF x, z
<1>12. Congruent(z, x)
    BY <1>6, <1>11, CongruentSym
<1>13. Congruent(e, x)
    BY <1>6, <1>7, <1>12, CongruentTrans
<1> QED
    BY <1>13 DEF x, v

\* A round of div keeps the whole and shortens what is left.
LEMMA DivStepIs ==
    ASSUME NEW f \in Seq(Scalars), NEW u \in Scalars, NEW n \in Nat,
           NEW st, Divided(st, f, u, n)
    PROVE  Divided(DivStep(st, <<u, 1>>), f, u, n + 1)
<1> DEFINE r == st.r
           q == st.q
           rhs == <<u, 1>>
           Top == Len(r)
           M == Len(q)
           l == r[Top]
           shift == Top - 2
           Rest(i) == IF i > shift THEN Minus(r[i], Times(l, rhs[i - shift])) ELSE r[i]
           rest == [i \in 1 .. Top |-> Rest(i)]
           quot == [k \in 1 .. M |-> IF k = shift + 1 THEN l ELSE q[k]]
           next == DivStep(st, rhs)
<1>1. /\ r \in Seq(Scalars) /\ q \in Seq(Scalars) /\ Top \in Nat /\ M \in Nat /\ Len(f) \in Nat
      /\ (Top <= 1 \/ Top <= Len(f) - n) /\ M = Len(f) - 1 /\ Top <= Len(f)
      /\ (\A k \in 1 .. M : k < Top => q[k] = 0)
      /\ \A y \in Scalars : Congruent(Eval(f, y), Eval(q, y) * (u + y) + Eval(r, y))
    BY ScalarSeq DEF Divided, Whole
<1>2. /\ DOMAIN r = 1 .. Top /\ DOMAIN q = 1 .. M /\ u \in Int
      /\ (\A i \in 1 .. Top : r[i] \in Scalars /\ r[i] \in Int)
      /\ \A k \in 1 .. M : q[k] \in Scalars /\ q[k] \in Int
    BY <1>1, ScalarSeq, ScalarsAre
<1>3. Len(rhs) = 2 /\ rhs[1] = u /\ rhs[2] = 1
    OBVIOUS
<1>4. CASE Top < 2
  <2>1. next = st
      BY <1>1, <1>3, <1>4 DEF DivStep, LeftToDivide
  <2>2. Top <= 1
      BY <1>1, <1>4
  <2> QED
      BY <2>1, <2>2 DEF Divided
<1>5. CASE Top >= 2
  <2>1. shift \in Nat /\ shift + 1 \in 1 .. Top /\ shift + 2 = Top /\ Top \in 1 .. Top /\ shift + 1 \in 1 .. M
        /\ shift + 1 = Top - 1 /\ shift + 1 < Top
      BY <1>1, <1>5
  <2>2. l \in Scalars /\ l \in Int
      BY <1>2, <2>1
  <2>3. next = [r |-> Trim(rest), q |-> quot]
    <3>1. Times(Last(r), Invert(Last(rhs))) = l
      <4>1. Last(r) = l /\ Last(rhs) = 1
        <5> HIDE DEF rhs
        <5> QED
            BY <1>3 DEF Last
      <4>2. Times(l, 1) = l /\ Invert(1) = 1
          BY <2>2, TimesOne
      <4> QED
          BY <4>1, <4>2
    <3>2. Len(rhs) <= Len(r)
        BY <1>3, <1>5
    <3> QED
        BY <1>1, <1>2, <1>3, <1>5, <3>1, <3>2 DEF DivStep, LeftToDivide
  <2> HIDE DEF r, q, Top, M, l, next, shift
  <2>4. ASSUME NEW i \in 1 .. Top
        PROVE  /\ Rest(i) \in Scalars
               /\ i = Top => Rest(i) = 0
               /\ i = shift + 1 => Congruent(Rest(i), r[i] + (-(l * u)))
               /\ i \notin {Top, shift + 1} => Rest(i) = r[i]
    <3>1. r[i] \in Scalars /\ r[i] \in Int
        BY <1>2
    <3>2. CASE i = Top
      <4>1. i > shift /\ i - shift = 2 /\ r[i] = l /\ i # shift + 1
          BY <2>1, <3>2 DEF l
      <4>2. Times(l, 1) = l /\ Minus(l, l) = 0
          BY <2>2, TimesOne
      <4>3. Rest(i) = 0
          BY <1>3, <4>1, <4>2
      <4> QED
          BY <3>2, <4>1, <4>3, ScalarsAre
    <3>3. CASE i = shift + 1
      <4>1. i > shift /\ i - shift = 1 /\ i # Top
          BY <2>1, <3>3
      <4> DEFINE a == r[i]
                 t == Times(l, u)
                 p == l * u
                 m == Minus(a, t)
                 g == a - t
                 h == a - p
      <4>2. Rest(i) = m
          BY <1>3, <4>1
      <4>3. t \in Scalars /\ Congruent(t, p) /\ p \in Int
          BY <1>2, <2>2, OperationsAre
      <4>4. t \in Int /\ a \in Int
          BY <3>1, <4>3, ScalarsAre
      <4> HIDE DEF a, t, p
      <4>9. m \in Scalars /\ Congruent(m, g) /\ g \in Int /\ h \in Int
        <5>1. m \in Scalars
            BY <4>4, OperationsAre
        <5>2. Congruent(m, g)
            BY <4>4, OperationsAre
        <5>3. g \in Int /\ h \in Int
            BY <4>3, <4>4
        <5> QED
            BY <5>1, <5>2, <5>3
      <4>10. Congruent(a, a)
          BY <4>4, CongruentSelf
      <4>11. Congruent(g, h)
          BY <4>3, <4>4, <4>10, CongruentSum
      <4>5. m \in Scalars /\ Congruent(m, g) /\ Congruent(g, h) /\ g \in Int /\ h \in Int
          BY <4>9, <4>11
      <4>6. m \in Int /\ h = a + (-p)
          BY <4>3, <4>4, <4>5, ScalarsAre
      <4> HIDE DEF m, g, h
      <4>7. Congruent(m, h)
          BY <4>5, <4>6, CongruentTrans
      <4>8. Rest(i) \in Scalars /\ Congruent(Rest(i), r[i] + (-(l * u)))
          BY <4>2, <4>5, <4>6, <4>7 DEF a, p
      <4> HIDE DEF Rest
      <4> QED
          BY <3>3, <4>1, <4>8
    <3>4. CASE i \notin {Top, shift + 1}
      <4>1. ~(i > shift)
          BY <1>1, <2>1, <3>4
      <4> QED
          BY <3>1, <3>4, <4>1
    <3> QED
        BY <3>2, <3>3, <3>4
  <2>5. rest \in Seq(Scalars) /\ Len(rest) = Top /\ \A i \in 1 .. Top : rest[i] = Rest(i)
    <3>1. \A i \in 1 .. Top : Rest(i) \in Scalars
        BY <2>4
    <3> HIDE DEF Rest
    <3> QED
        BY <1>1, <3>1
  <2>6. quot \in Seq(Scalars) /\ Len(quot) = M
        /\ \A k \in 1 .. M : quot[k] = IF k = shift + 1 THEN l ELSE q[k]
    <3> DEFINE Item(k) == IF k = shift + 1 THEN l ELSE q[k]
    <3>1. \A k \in 1 .. M : Item(k) \in Scalars
        BY <1>2, <2>2
    <3> HIDE DEF Item
    <3>2. quot = [k \in 1 .. M |-> Item(k)]
        BY DEF Item
    <3> HIDE DEF quot
    <3>3. quot \in Seq(Scalars) /\ Len(quot) = M /\ \A k \in 1 .. M : quot[k] = Item(k)
        BY <1>1, <3>1, <3>2
    <3> QED
        BY <3>3 DEF Item
  <2> HIDE DEF rest, quot
  <2>7. Adds(rest, r, shift, -(l * u), -l)
    <3>1. ASSUME NEW m \in Nat
          PROVE  Congruent(Coef(rest)[m], Coef(r)[m] + (IF m = shift THEN -(l * u)
                                                        ELSE IF m = shift + 1 THEN -l ELSE 0))
      <4>1. CASE m < Top
        <5>1. m + 1 \in 1 .. Top /\ Coef(rest)[m] = rest[m + 1] /\ Coef(r)[m] = r[m + 1]
          <6>1. m + 1 \in 1 .. Top
              BY <1>1, <4>1
          <6> QED
              BY <1>1, <2>5, <4>1, <6>1, CoefIs DEF Top
        <5>2. rest[m + 1] = Rest(m + 1) /\ r[m + 1] \in Int
            BY <1>2, <2>5, <5>1
        <5> HIDE DEF Rest
        <5>3. CASE m = shift
            BY <2>1, <2>4, <5>1, <5>2, <5>3
        <5>4. CASE m = shift + 1
          <6>1. m + 1 = Top /\ m # shift
              BY <2>1, <5>4
          <6>2. Rest(m + 1) = 0 /\ r[m + 1] = l
              BY <2>4, <5>1, <6>1 DEF l
          <6>3. l + (-l) = 0
              BY <2>2
          <6>4. Congruent(0, 0)
              BY CongruentSelf
          <6> QED
              BY <5>1, <5>2, <5>4, <6>1, <6>2, <6>3, <6>4
        <5>5. CASE m # shift /\ m # shift + 1
          <6>1. m + 1 \notin {Top, shift + 1}
              BY <2>1, <5>5
          <6>2. Rest(m + 1) = r[m + 1]
              BY <2>4, <5>1, <6>1
          <6>3. r[m + 1] + 0 = r[m + 1]
              BY <5>2
          <6>4. Congruent(r[m + 1], r[m + 1])
              BY <5>2, CongruentSelf
          <6> QED
              BY <5>1, <5>2, <5>5, <6>2, <6>3, <6>4
        <5> QED
            BY <5>3, <5>4, <5>5
      <4>2. CASE ~(m < Top)
        <5>1. m >= Top /\ m # shift /\ m # shift + 1
            BY <1>1, <2>1, <4>2
        <5>2. Coef(rest)[m] = 0 /\ Coef(r)[m] = 0
            BY <1>1, <2>5, <5>1, CoefIs DEF Top
        <5>3. Congruent(0, 0)
            BY CongruentSelf
        <5> QED
            BY <5>1, <5>2, <5>3
      <4> QED
          BY <4>1, <4>2
    <3> QED
        BY <3>1 DEF Adds
  <2> DEFINE o == 0
  <2>8. Adds(quot, q, shift, l, o)
    <3>1. ASSUME NEW m \in Nat
          PROVE  Congruent(Coef(quot)[m], Coef(q)[m] + (IF m = shift THEN l
                                                        ELSE IF m = shift + 1 THEN o ELSE 0))
      <4>1. CASE m < M
        <5>1. m + 1 \in 1 .. M /\ Coef(quot)[m] = quot[m + 1] /\ Coef(q)[m] = q[m + 1]
          <6>1. m + 1 \in 1 .. M
              BY <1>1, <4>1
          <6> QED
              BY <1>1, <2>6, <4>1, <6>1, CoefIs DEF M
        <5>2. q[m + 1] \in Int /\ q[m + 1] + 0 = q[m + 1]
            BY <1>2, <5>1
        <5>3. CASE m = shift
          <6>1. quot[m + 1] = l /\ q[m + 1] = 0 /\ 0 + l = l
              BY <1>1, <2>1, <2>2, <2>6, <5>1, <5>3
          <6> QED
              BY <2>2, <5>1, <5>3, <6>1, CongruentSelf
        <5>4. CASE m # shift
          <6>1. quot[m + 1] = q[m + 1]
              BY <2>1, <2>6, <5>1, <5>4
          <6>2. Congruent(q[m + 1], q[m + 1])
              BY <5>2, CongruentSelf
          <6> QED
              BY <5>1, <5>2, <5>4, <6>1, <6>2
        <5> QED
            BY <5>3, <5>4
      <4>2. CASE ~(m < M)
        <5>1. m >= M /\ m # shift
            BY <1>1, <2>1, <4>2
        <5>2. Coef(quot)[m] = 0 /\ Coef(q)[m] = 0
            BY <1>1, <2>6, <5>1, CoefIs DEF M
        <5>3. Congruent(0, 0)
            BY CongruentSelf
        <5> QED
            BY <5>1, <5>2, <5>3
      <4> QED
          BY <4>1, <4>2
    <3> QED
        BY <3>1 DEF Adds
  <2>9. o \in Int /\ o = 0
      OBVIOUS
  <2> HIDE DEF o
  <2> DEFINE left == Trim(rest)
  <2>10. /\ left \in Seq(Scalars) /\ Len(left) <= Top - 1 /\ Len(left) \in Nat
         /\ \A k \in Nat : Coef(left)[k] = Coef(rest)[k]
    <3>1. /\ left \in Seq(Scalars) /\ Len(left) <= Top /\ (Len(left) # 0 => left[Len(left)] # 0)
          /\ \A k \in Nat : Coef(left)[k] = Coef(rest)[k]
        BY <2>5, TrimIs
    <3> HIDE DEF left
    <3>2. Len(left) # Top
      <4>1. SUFFICES ASSUME Len(left) = Top PROVE FALSE
          OBVIOUS
      <4>2. Top - 1 \in Nat /\ Top - 1 < Len(left) /\ Top - 1 < Len(rest) /\ (Top - 1) + 1 = Top /\ Top # 0
          BY <1>1, <1>5, <2>5, <4>1
      <4>3. left[Top] = rest[Top]
        <5> DEFINE i == Top - 1
        <5>1. i \in Nat /\ i < Len(left) /\ i < Len(rest) /\ i + 1 = Top
            BY <4>2
        <5> HIDE DEF i
        <5>2. Coef(left)[i] = left[i + 1] /\ Coef(rest)[i] = rest[i + 1]
            BY <2>5, <3>1, <5>1, CoefIs
        <5> QED
            BY <3>1, <5>1, <5>2
      <4>4. rest[Top] = 0
          BY <2>1, <2>4, <2>5
      <4> QED
          BY <3>1, <4>1, <4>2, <4>3, <4>4
    <3>3. Len(left) \in Nat
        BY <3>1, ScalarSeq
    <3> QED
        BY <1>1, <3>1, <3>2, <3>3
  <2> HIDE DEF left
  <2>11. ASSUME NEW y \in Scalars
         PROVE  Congruent(Eval(f, y), Eval(quot, y) * (u + y) + Eval(left, y))
    <3> DEFINE p == PowersOf(y)[shift]
               e == Eval(f, y)
               a == Eval(q, y)
               b == Eval(r, y)
               t == Eval(quot, y)
               s == Eval(left, y)
               lu == -(l * u)
               ml == -l
    <3>1. s = Eval(rest, y)
        BY <2>5, <2>10, SameCoefsEval
    <3>2. e \in Scalars /\ a \in Scalars /\ b \in Scalars /\ t \in Scalars /\ s \in Scalars
        BY <1>1, <2>6, <2>10, EvalIs
    <3>3. lu \in Int /\ ml \in Int /\ y \in Int
        BY <1>2, <2>2, ScalarsAre
    <3>4. p \in Int /\ Congruent(t, a + (l + o * y) * p)
        BY <1>1, <2>1, <2>2, <2>6, <2>8, <2>9, EvalAdds
    <3>5. Congruent(s, b + (lu + ml * y) * p)
      <4> HIDE DEF lu, ml, s, b, p
      <4>1. Adds(rest, r, shift, lu, ml)
          BY <2>7 DEF lu, ml
      <4>2. Congruent(Eval(rest, y), Eval(r, y) + (lu + ml * y) * PowersOf(y)[shift])
          BY <1>1, <2>1, <2>5, <3>3, <4>1, EvalAdds
      <4> QED
          BY <3>1, <4>2 DEF b, p
    <3>6. Congruent(e, a * (u + y) + b)
        BY <1>1
    <3> HIDE DEF e, a, b, t, s, p
    <3>7. e \in Int /\ a \in Int /\ b \in Int /\ t \in Int /\ s \in Int
        BY <3>2, ScalarsAre
    <3>8. Congruent(e, t * (u + y) + s)
        BY <1>2, <2>2, <2>9, <3>3, <3>4, <3>5, <3>6, <3>7, TermMoves
    <3> QED
        BY <3>8 DEF e, t, s
  <2>12. next.r = left /\ next.q = quot
      BY <2>3 DEF left
  <2>13. Len(left) <= 1 \/ Len(left) <= Len(f) - (n + 1)
      BY <1>1, <1>5, <2>10
  <2>14. \A k \in 1 .. M : k < Len(left) => quot[k] = 0
    <3>1. SUFFICES ASSUME NEW k \in 1 .. M, k < Len(left) PROVE quot[k] = 0
        OBVIOUS
    <3>2. k # shift + 1 /\ k < Top
        BY <1>1, <2>1, <2>10, <3>1
    <3> QED
        BY <1>1, <2>6, <3>2
  <2>15. Len(left) <= Len(f)
      BY <1>1, <2>10
  <2> QED
      BY <1>1, <2>6, <2>10, <2>11, <2>12, <2>13, <2>14, <2>15 DEF Divided, Whole, next
<1> QED
    BY <1>1, <1>4, <1>5

\* A polynomial with at most one coefficient has one value.
LEMMA EvalConstant ==
    ASSUME NEW c \in Seq(Scalars), Len(c) <= 1
    PROVE  \E s \in Scalars : \A y \in Scalars : Eval(c, y) = s
<1>1. Len(c) \in Nat /\ 0 \in Scalars
    BY ScalarSeq, ScalarsAre
<1>2. CASE Len(c) = 0
  <2>1. c = <<>>
      BY <1>2
  <2>2. \A y \in Scalars : Eval(c, y) = 0
      BY <2>1 DEF Eval
  <2> QED
      BY <1>1, <2>2
<1>3. CASE Len(c) = 1
  <2>1. c # <<>> /\ 1 \in 1 .. Len(c)
    <3>1. ASSUME c = <<>> PROVE FALSE
      <4>1. Len(c) = Len(<<>>)
          BY <3>1
      <4>2. Len(<<>>) = 0
          OBVIOUS
      <4> QED
          BY <1>3, <4>1, <4>2
    <3>2. 1 \in 1 .. Len(c)
        BY <1>3
    <3> QED
        BY <3>1, <3>2
  <2>2. c[1] \in Scalars
      BY <2>1, ScalarSeq
  <2>3. ASSUME NEW y \in Scalars PROVE Eval(c, y) = c[1]
    <3>1. PICK b \in [1 .. Len(c) -> Scalars] : Eval(c, y) = b[1] /\ b[Len(c)] = c[Len(c)]
        BY <2>1, EvalRuns
    <3> QED
        BY <1>3, <3>1
  <2> QED
      BY <2>2, <2>3
<1>4. Len(c) = 0 \/ Len(c) = 1
  <2> DEFINE n == Len(c)
  <2>1. n \in Nat /\ n <= 1
      BY <1>1
  <2> HIDE DEF n
  <2>2. n = 0 \/ n = 1
      BY <2>1
  <2> QED
      BY <2>2 DEF n
<1> QED
    BY <1>2, <1>3, <1>4

\* Before the first round nothing is divided.
LEMMA NoneDivided ==
    ASSUME NEW f \in Seq(Scalars), NEW u \in Scalars, Len(f) >= 2,
           NEW zeros, zeros = [i \in 1 .. Len(f) - 1 |-> 0]
    PROVE  zeros \in Seq(Scalars) /\ Divided([r |-> f, q |-> zeros], f, u, 0)
<1> DEFINE M == Len(f) - 1
           st == [r |-> f, q |-> zeros]
           e == <<>>
<1>1. Len(f) \in Nat /\ M \in Nat /\ 0 \in Scalars /\ u \in Int
    BY ScalarSeq, ScalarsAre
<1>2. zeros \in Seq(Scalars) /\ Len(zeros) = M /\ \A i \in 1 .. M : zeros[i] = 0
    BY <1>1
<1>3. \A k \in Nat : Coef(zeros)[k] = 0
  <2>1. SUFFICES ASSUME NEW k \in Nat PROVE Coef(zeros)[k] = 0
      OBVIOUS
  <2>2. CASE k < M
    <3>1. k + 1 \in 1 .. M
        BY <1>1, <2>2
    <3> QED
        BY <1>2, <2>2, <3>1, CoefIs
  <2>3. CASE k >= M
      BY <1>2, <2>3, CoefIs
  <2> QED
      BY <1>1, <2>2, <2>3
<1>4. e \in Seq(Scalars) /\ \A k \in Nat : Coef(e)[k] = 0
  <2>1. e \in Seq(Scalars) /\ Len(e) = 0
      OBVIOUS
  <2> HIDE DEF e
  <2>2. \A k \in Nat : k >= Len(e) => Coef(e)[k] = 0
      BY <2>1, CoefIs
  <2>3. \A k \in Nat : k >= Len(e)
      BY <2>1
  <2> QED
      BY <2>1, <2>2, <2>3
<1>5. ASSUME NEW y \in Scalars PROVE Congruent(Eval(f, y), Eval(zeros, y) * (u + y) + Eval(f, y))
  <2>1. Eval(zeros, y) = 0
    <3>1. Eval(zeros, y) = Eval(e, y)
      <4> HIDE DEF e
      <4>1. \A k \in Nat : Coef(zeros)[k] = Coef(e)[k]
          BY <1>3, <1>4
      <4> QED
          BY <1>2, <1>4, <4>1, SameCoefsEval
    <3>2. Eval(e, y) = 0
        BY DEF Eval
    <3> QED
        BY <3>1, <3>2
  <2> DEFINE v == Eval(f, y)
             w == u + y
             o == Eval(zeros, y)
  <2>2. v \in Int /\ w \in Int /\ o = 0
    <3>1. v \in Scalars /\ y \in Int
        BY EvalIs, ScalarsAre
    <3>2. v \in Int
        BY <3>1, ScalarsAre
    <3> QED
        BY <1>1, <2>1, <3>1, <3>2
  <2> HIDE DEF v, w, o
  <2>3. o * w + v = v
      BY <2>2
  <2>4. Congruent(v, v)
      BY <2>2, CongruentSelf
  <2> QED
      BY <2>3, <2>4 DEF v, w, o
<1>6. st.r = f /\ st.q = zeros
    OBVIOUS
<1> HIDE DEF st
<1> QED
    BY <1>1, <1>2, <1>5, <1>6 DEF Divided, Whole, st

\* Q is what comes of dividing f by (u + X), and s what is left.
QuotientOf(Q, f, u, s) ==
    /\ Q \in Seq(Scalars) /\ Len(Q) <= Len(f)
    /\ \A y \in Scalars : Congruent(Eval(f, y), Eval(Q, y) * (u + y) + s)

\* div leaves a constant.
LEMMA DivIs ==
    ASSUME NEW f \in Seq(Scalars), NEW u \in Scalars
    PROVE  \E s \in Scalars : QuotientOf(Div(f, <<u, 1>>), f, u, s)
<1> DEFINE rhs == <<u, 1>>
           Top == Len(f)
<1>1. Top \in Nat /\ Len(rhs) = 2 /\ u \in Int
    BY ScalarSeq, ScalarsAre
<1>2. CASE Top < 2
  <2> DEFINE e == <<>>
  <2>1. Div(f, rhs) = e
      BY <1>1, <1>2 DEF Div
  <2>2. PICK s \in Scalars : \A y \in Scalars : Eval(f, y) = s
      BY <1>1, <1>2, EvalConstant
  <2>3. e \in Seq(Scalars) /\ Len(e) = 0 /\ \A y \in Scalars : Eval(e, y) = 0
      BY DEF Eval
  <2>4. ASSUME NEW y \in Scalars PROVE Congruent(Eval(f, y), Eval(e, y) * (u + y) + s)
    <3> DEFINE w == u + y
               o == Eval(e, y)
    <3>1. w \in Int /\ o = 0 /\ s \in Int
        BY <1>1, <2>3, ScalarsAre
    <3> HIDE DEF w, o
    <3>2. o * w + s = s
        BY <3>1
    <3>3. Congruent(s, s)
        BY <3>1, CongruentSelf
    <3> QED
        BY <2>2, <3>2, <3>3 DEF w, o
  <2> HIDE DEF e
  <2>5. QuotientOf(e, f, u, s)
      BY <1>1, <2>3, <2>4 DEF QuotientOf
  <2> QED
      BY <2>1, <2>5
<1>3. CASE Top >= 2
  <2> DEFINE zeros == [i \in 1 .. Top - 1 |-> 0]
             first == [r |-> f, q |-> zeros]
             All == [r : Seq(Scalars), q : Seq(Scalars)]
             R == [n \in 0 .. Top |-> {st \in All : Divided(st, f, u, n)}]
             step == [n \in 1 .. Top |-> [st \in R[n - 1] |-> DivStep(st, rhs)]]
             Is(g) == g = [n \in 0 .. Top |-> IF n = 0 THEN first ELSE DivStep(g[n - 1], rhs)]
             run == CHOOSE g : Is(g)
  <2>1. Div(f, rhs) = Trim(run[Top].q)
    <3>1. Top - Len(rhs) + 1 = Top - 1 /\ ~(Top < Len(rhs))
        BY <1>1, <1>3
    <3> QED
        BY <1>1, <3>1 DEF Div
  <2>2. ASSUME NEW n \in 0 .. Top, NEW st PROVE st \in R[n] <=> st \in All /\ Divided(st, f, u, n)
      OBVIOUS
  <2>3. first \in R[0]
    <3>1. zeros \in Seq(Scalars) /\ Divided(first, f, u, 0)
        BY <1>3, NoneDivided
    <3>2. first \in All /\ 0 \in 0 .. Top
        BY <1>1, <3>1
    <3> HIDE DEF R, first
    <3> QED
        BY <2>2, <3>1, <3>2
  <2> HIDE DEF R, first
  <2>4. ASSUME NEW n \in 1 .. Top, NEW st \in R[n - 1] PROVE DivStep(st, rhs) \in R[n]
    <3>1. n - 1 \in 0 .. Top /\ n \in 0 .. Top /\ n - 1 \in Nat /\ (n - 1) + 1 = n
        BY <1>1
    <3>2. st \in All /\ Divided(st, f, u, n - 1)
        BY <2>2, <3>1
    <3> HIDE DEF All
    <3>3. Divided(DivStep(st, rhs), f, u, n)
        BY <3>1, <3>2, DivStepIs
    <3> DEFINE next == DivStep(st, rhs)
    <3>4. next.r \in Seq(Scalars) /\ next.q \in Seq(Scalars)
        BY <3>3 DEF Divided
    <3>5. next = st \/ next = [r |-> next.r, q |-> next.q]
      <4> HIDE DEF rhs
      <4> QED
          BY DEF DivStep
    <3>6. next \in All
      <4> HIDE DEF next
      <4> QED
          BY <3>2, <3>4, <3>5 DEF All
    <3> HIDE DEF rhs
    <3> QED
        BY <2>2, <3>1, <3>3, <3>6
  <2> HIDE DEF rhs, All
  <2>5. \A n \in 1 .. Top : step[n] \in [R[n - 1] -> R[n]]
      BY <2>4
  <2>6. PICK g : Through(g, Top, R, first, step)
      BY <1>1, <2>3, <2>5, SomeThrough
  <2>7. ASSUME NEW n \in 0 .. Top PROVE g[n] = IF n = 0 THEN first ELSE DivStep(g[n - 1], rhs)
    <3>1. g[n] = (IF n = 0 THEN first ELSE step[n][g[n - 1]]) /\ g[n] \in R[n]
        BY <2>6 DEF Through
    <3>2. CASE n # 0
      <4>1. n \in 1 .. Top /\ n - 1 \in 0 .. Top
          BY <1>1, <3>2
      <4>2. g[n - 1] \in R[n - 1]
          BY <2>6, <4>1 DEF Through
      <4>3. step[n][g[n - 1]] = DivStep(g[n - 1], rhs)
          BY <4>1, <4>2
      <4> QED
          BY <3>1, <3>2, <4>3
    <3> QED
        BY <3>1, <3>2
  <2>8. Is(g)
    <3>1. g = [n \in 0 .. Top |-> IF n = 0 THEN first ELSE step[n][g[n - 1]]]
        BY <2>6 DEF Through
    <3> HIDE DEF step
    <3>2. [n \in 0 .. Top |-> IF n = 0 THEN first ELSE step[n][g[n - 1]]]
            = [n \in 0 .. Top |-> IF n = 0 THEN first ELSE DivStep(g[n - 1], rhs)]
      <4>1. \A n \in 0 .. Top : (IF n = 0 THEN first ELSE step[n][g[n - 1]])
                               = (IF n = 0 THEN first ELSE DivStep(g[n - 1], rhs))
          BY <2>7, <3>1
      <4> QED
          BY <4>1
    <3> QED
        BY <3>1, <3>2
  <2>9. Is(run)
      BY <2>8
  <2> HIDE DEF run
  <2>10. \A n \in 0 .. Top : run[n] = IF n = 0 THEN first ELSE DivStep(run[n - 1], rhs)
      BY <2>9
  <2> DEFINE T == {n \in 0 .. Top : run[n] \in R[n]}
  <2>11. 0 \in T
    <3>1. 0 \in 0 .. Top
        BY <1>1
    <3>2. run[0] = first
        BY <2>10, <3>1
    <3> QED
        BY <2>3, <3>1, <3>2
  <2>12. ASSUME NEW n \in 0 .. Top - 1, n \in T PROVE n + 1 \in T
    <3>1. n + 1 \in 1 .. Top /\ (n + 1) - 1 = n /\ n + 1 \in 0 .. Top /\ n + 1 # 0
        BY <1>1
    <3>2. run[n + 1] = DivStep(run[n], rhs)
        BY <2>10, <3>1
    <3>3. run[n] \in R[(n + 1) - 1]
        BY <2>12, <3>1
    <3> QED
        BY <2>4, <3>1, <3>2, <3>3
  <2> HIDE DEF T
  <2>13. Divided(run[Top], f, u, Top)
    <3>1. \A n \in 0 .. Top : n \in T
        BY <1>1, <2>11, <2>12, UpTo
    <3>2. Top \in 0 .. Top
        BY <1>1
    <3> QED
        BY <2>2, <3>1, <3>2 DEF T
  <2> DEFINE left == run[Top].r
             q == run[Top].q
             Q == Trim(q)
  <2>14. /\ left \in Seq(Scalars) /\ Len(left) <= 1
         /\ q \in Seq(Scalars) /\ Len(q) = Top - 1
         /\ \A y \in Scalars : Congruent(Eval(f, y), Eval(q, y) * (u + y) + Eval(left, y))
    <3>1. Len(left) \in Nat /\ (Len(left) <= 1 \/ Len(left) <= Top - Top) => Len(left) <= 1
        BY <1>1
    <3> QED
        BY <2>13, <3>1, ScalarSeq DEF Divided, Whole
  <2> HIDE DEF left, q
  <2>15. PICK s \in Scalars : \A y \in Scalars : Eval(left, y) = s
      BY <2>14, EvalConstant
  <2>16. /\ Q \in Seq(Scalars) /\ Len(Q) <= Len(q)
         /\ \A k \in Nat : Coef(Q)[k] = Coef(q)[k]
      BY <2>14, TrimIs
  <2> HIDE DEF Q
  <2>17. \A y \in Scalars : Eval(Q, y) = Eval(q, y)
      BY <2>14, <2>16, SameCoefsEval
  <2>18. Len(Q) <= Top
    <3>1. Len(Q) \in Nat
        BY <2>16, ScalarSeq
    <3> QED
        BY <1>1, <2>14, <2>16, <3>1
  <2>19. \A y \in Scalars : Congruent(Eval(f, y), Eval(Q, y) * (u + y) + s)
      BY <2>14, <2>15, <2>17
  <2>20. Div(f, rhs) = Q
      BY <2>1 DEF Q, q
  <2> QED
      BY <2>15, <2>16, <2>18, <2>19, <2>20 DEF QuotientOf, rhs
<1> QED
    BY <1>1, <1>2, <1>3

\* The longer of two lengths
Longer(m, n) == IF m > n THEN m ELSE n

\* poly_add adds the values.
LEMMA PolyAddIs ==
    ASSUME NEW f \in Seq(Scalars), NEW g \in Seq(Scalars)
    PROVE  /\ PolyAdd(f, g) \in Seq(Scalars) /\ Len(PolyAdd(f, g)) <= Longer(Len(f), Len(g))
           /\ \A x \in Scalars : Congruent(Eval(PolyAdd(f, g), x), Eval(f, x) + Eval(g, x))
<1> DEFINE Top == Longer(Len(f), Len(g))
           a(i) == IF i <= Len(f) THEN f[i] ELSE 0
           b(i) == IF i <= Len(g) THEN g[i] ELSE 0
           Item(i) == Plus(a(i), b(i))
           m == [i \in 1 .. Top |-> Item(i)]
           t == Trim(m)
           o == 1
<1>1. Len(f) \in Nat /\ Len(g) \in Nat /\ Top \in Nat /\ Top >= Len(f) /\ Top >= Len(g)
    BY ScalarSeq DEF Longer
<1>2. PolyAdd(f, g) = t
    BY DEF PolyAdd, Longer
<1>3. ASSUME NEW i \in 1 .. Top
      PROVE  a(i) \in Int /\ b(i) \in Int /\ Item(i) \in Scalars /\ Congruent(Item(i), a(i) + b(i))
  <2>1. a(i) \in Int /\ b(i) \in Int
    <3>1. i <= Len(f) => f[i] \in Int
      <4>1. i <= Len(f) => i \in 1 .. Len(f)
          BY <1>1
      <4> QED
          BY <4>1, ScalarSeq
    <3>2. i <= Len(g) => g[i] \in Int
      <4>1. i <= Len(g) => i \in 1 .. Len(g)
          BY <1>1
      <4> QED
          BY <4>1, ScalarSeq
    <3> QED
        BY <3>1, <3>2
  <2> HIDE DEF a, b
  <2> QED
      BY <2>1, OperationsAre
<1> HIDE DEF Top, Item
<1>4. m \in Seq(Scalars) /\ Len(m) = Top /\ \A i \in 1 .. Top : m[i] = Item(i)
  <2>1. \A i \in 1 .. Top : Item(i) \in Scalars
      BY <1>3
  <2> QED
      BY <1>1, <2>1
<1> HIDE DEF m
<1>5. t \in Seq(Scalars) /\ Len(t) <= Top /\ \A k \in Nat : Coef(t)[k] = Coef(m)[k]
    BY <1>4, TrimIs
<1> HIDE DEF t
<1>6. o \in Int /\ \A c \in Int : o * c = c
    OBVIOUS
<1> HIDE DEF o
<1>7. ASSUME NEW k \in Nat PROVE Congruent(Coef(t)[k], o * Coef(f)[k] + o * Coef(g)[k])
  <2> DEFINE cf == Coef(f)[k]
             cg == Coef(g)[k]
             cm == Coef(m)[k]
  <2>1. cf \in Int /\ cg \in Int
      BY CoefIs
  <2>2. Congruent(cm, cf + cg)
    <3>1. CASE k < Top
      <4>1. k + 1 \in 1 .. Top /\ cm = m[k + 1]
        <5>1. k + 1 \in 1 .. Top
            BY <1>1, <3>1
        <5> QED
            BY <1>4, <3>1, <5>1, CoefIs
      <4>2. cm = Item(k + 1)
          BY <1>4, <4>1
      <4>3. cf = a(k + 1)
        <5>1. k < Len(f) <=> k + 1 <= Len(f)
            BY <1>1
        <5>2. CASE k < Len(f)
            BY <5>1, <5>2, CoefIs
        <5>3. CASE ~(k < Len(f))
          <6>1. k >= Len(f)
              BY <1>1, <5>3
          <6> QED
              BY <5>1, <5>3, <6>1, CoefIs
        <5> QED
            BY <5>2, <5>3
      <4>4. cg = b(k + 1)
        <5>1. k < Len(g) <=> k + 1 <= Len(g)
            BY <1>1
        <5>2. CASE k < Len(g)
            BY <5>1, <5>2, CoefIs
        <5>3. CASE ~(k < Len(g))
          <6>1. k >= Len(g)
              BY <1>1, <5>3
          <6> QED
              BY <5>1, <5>3, <6>1, CoefIs
        <5> QED
            BY <5>2, <5>3
      <4> HIDE DEF a, b, cf, cg, cm
      <4> QED
          BY <1>3, <4>1, <4>2, <4>3, <4>4
    <3>2. CASE ~(k < Top)
      <4>1. k >= Top /\ k >= Len(f) /\ k >= Len(g)
          BY <1>1, <3>2
      <4>2. cm = 0
          BY <1>4, <4>1, CoefIs
      <4>3. cf = 0 /\ cg = 0
          BY <4>1, CoefIs
      <4>4. Congruent(0, 0)
          BY CongruentSelf
      <4> QED
          BY <4>2, <4>3, <4>4
    <3> QED
        BY <3>1, <3>2
  <2>3. Coef(t)[k] = cm
      BY <1>5
  <2> HIDE DEF cf, cg, cm
  <2>4. o * cf = cf /\ o * cg = cg
      BY <1>6, <2>1
  <2> QED
      BY <2>2, <2>3, <2>4 DEF cf, cg
<1>8. ASSUME NEW x \in Scalars PROVE Congruent(Eval(t, x), Eval(f, x) + Eval(g, x))
  <2>1. Combines(t, o, f, o, g)
      BY <1>7 DEF Combines
  <2>2. Congruent(Eval(t, x), o * Eval(f, x) + o * Eval(g, x))
      BY <1>5, <1>6, <2>1, EvalLinear
  <2>3. Eval(f, x) \in Scalars /\ Eval(g, x) \in Scalars
      BY EvalIs
  <2>4. Eval(f, x) \in Int /\ Eval(g, x) \in Int
      BY <2>3, ScalarsAre
  <2>5. o * Eval(f, x) = Eval(f, x) /\ o * Eval(g, x) = Eval(g, x)
      BY <1>6, <2>4
  <2> QED
      BY <2>2, <2>5
<1> QED
    BY <1>2, <1>5, <1>8 DEF Top

\* Division by (x - X) of what vanishes at x leaves nothing: e, v, p and q are values of the
\* polynomial at y and at x, of what is divided at y and of the quotient at y.
LEMMA NothingLeft ==
    ASSUME NEW e \in Int, NEW v \in Int, NEW g \in Int, NEW u \in Int, NEW x \in Int, NEW y \in Int,
           NEW p \in Int, NEW q \in Int, NEW px \in Int, NEW qx \in Int, NEW s \in Int,
           Congruent(g, -v), Congruent(u, -x),
           Congruent(p, e + g), Congruent(p, q * (u + y) + s),
           Congruent(px, v + g), Congruent(px, qx * (u + x) + s)
    PROVE  Congruent(e - v, q * (y - x))
<1>1. PICK k1 \in Int : g - (-v) = k1 * Prime
    BY DEF Congruent
<1>2. PICK k2 \in Int : u - (-x) = k2 * Prime
    BY DEF Congruent
<1>3. PICK k3 \in Int : p - (e + g) = k3 * Prime
    BY DEF Congruent
<1>4. PICK k4 \in Int : p - (q * (u + y) + s) = k4 * Prime
    BY DEF Congruent
<1>5. PICK k5 \in Int : px - (v + g) = k5 * Prime
    BY DEF Congruent
<1>6. PICK k6 \in Int : px - (qx * (u + x) + s) = k6 * Prime
    BY DEF Congruent
<1> DEFINE n == Prime
           a == qx * k2
           b == q * k2
           r == q * (y - x)
<1>7. n \in Int /\ a \in Int /\ b \in Int /\ r \in Int
    BY PrimeIs
<1>8. qx * (u + x) = a * n
  <2>1. u + x = k2 * n
      BY <1>2
  <2> HIDE DEF n
  <2> QED
      BY <1>7, <2>1
<1>9. q * (u + y) = b * n + r
  <2>1. u + y = k2 * n + (y - x) /\ y - x \in Int
      BY <1>2, <1>7
  <2> DEFINE d == y - x
             w == k2 * n
  <2>2. d \in Int /\ w \in Int /\ u + y = w + d
      BY <1>7, <2>1
  <2> HIDE DEF d, w, n
  <2>3. q * (w + d) = q * w + q * d
      BY <2>2
  <2>4. q * w = b * n
      BY <1>7 DEF w
  <2> QED
      BY <2>2, <2>3, <2>4 DEF d
<1> HIDE DEF a, b, r
<1> DEFINE k == b + k4 - k3 + k5 - k6 - a
<1>10. k \in Int
    BY <1>7
<1>11. e - v - r = k * n
  <2> DEFINE an == a * n
             bn == b * n
             n1 == k1 * n
             n3 == k3 * n
             n4 == k4 * n
             n5 == k5 * n
             n6 == k6 * n
  <2>1. /\ an \in Int /\ bn \in Int /\ n1 \in Int /\ n3 \in Int /\ n4 \in Int /\ n5 \in Int /\ n6 \in Int
        /\ g - (-v) = n1 /\ p - (e + g) = n3 /\ p - (bn + r + s) = n4
        /\ px - (v + g) = n5 /\ px - (an + s) = n6
      BY <1>1, <1>3, <1>4, <1>5, <1>6, <1>7, <1>8, <1>9
  <2>2. k * n = bn + n4 - n3 + n5 - n6 - an
    <3> HIDE DEF n
    <3> QED
        BY <1>7
  <2> HIDE DEF an, bn, n1, n3, n4, n5, n6, k, n
  <2> QED
      BY <1>7, <2>1, <2>2
<1> HIDE DEF k
<1> QED
    BY <1>10, <1>11 DEF Congruent, r

\* What the witness of an opening at x commits to
Witness(f, x) == Div(PolyAdd(f, Trim(<<Minus(0, Eval(f, x))>>)), <<Minus(0, x), 1>>)

\* It is (f - f(x)) / (X - x).
LEMMA WitnessIs ==
    ASSUME NEW f \in Seq(Scalars), NEW x \in Scalars
    PROVE  /\ Witness(f, x) \in Seq(Scalars) /\ Len(Witness(f, x)) <= Longer(Len(f), 1)
           /\ \A y \in Scalars : Congruent(Eval(f, y) - Eval(f, x), Eval(Witness(f, x), y) * (y - x))
<1> DEFINE v == Eval(f, x)
           u == Minus(0, x)
           w == Minus(0, v)
           one == <<w>>
           g == Trim(one)
           P == PolyAdd(f, g)
           Q == Witness(f, x)
<1>1. v \in Scalars /\ v \in Int /\ x \in Int /\ 0 \in Int /\ Len(f) \in Nat
  <2>1. v \in Scalars
      BY EvalIs
  <2> QED
      BY <2>1, ScalarsAre, ScalarSeq
<1>2. u \in Scalars /\ Congruent(u, -x)
  <2>1. 0 - x = -x
      BY <1>1
  <2> QED
      BY <1>1, <2>1, OperationsAre
<1>3. w \in Scalars /\ Congruent(w, -v)
  <2> HIDE DEF v
  <2>1. 0 - v = -v
      BY <1>1
  <2> QED
      BY <1>1, <2>1, OperationsAre
<1>4. Q = Div(P, <<u, 1>>)
    BY DEF Witness
<1> HIDE DEF Q, P, u, w, v
<1>5. one \in Seq(Scalars) /\ Len(one) = 1 /\ \A y \in Scalars : Eval(one, y) = w
    BY <1>3, EvalOne
<1>6. g \in Seq(Scalars) /\ Len(g) <= 1 /\ \A y \in Scalars : Eval(g, y) = w
  <2> HIDE DEF one
  <2>1. g \in Seq(Scalars) /\ Len(g) <= 1 /\ \A k \in Nat : Coef(g)[k] = Coef(one)[k]
      BY <1>5, TrimIs
  <2> HIDE DEF g
  <2>2. \A y \in Scalars : Eval(g, y) = Eval(one, y)
      BY <1>5, <2>1, SameCoefsEval
  <2> QED
      BY <1>5, <2>1, <2>2
<1> HIDE DEF g
<1>7. /\ P \in Seq(Scalars) /\ Len(P) <= Longer(Len(f), 1)
      /\ \A y \in Scalars : Congruent(Eval(P, y), Eval(f, y) + w)
  <2>1. /\ P \in Seq(Scalars) /\ Len(P) <= Longer(Len(f), Len(g))
        /\ \A y \in Scalars : Congruent(Eval(P, y), Eval(f, y) + Eval(g, y))
      BY <1>6, PolyAddIs DEF P
  <2>2. Len(P) <= Longer(Len(f), 1)
    <3>1. Len(P) \in Nat /\ Len(g) \in Nat
        BY <1>6, <2>1, ScalarSeq
    <3> QED
        BY <1>1, <1>6, <2>1, <3>1 DEF Longer
  <2> QED
      BY <1>6, <2>1, <2>2
<1>8. PICK s \in Scalars : QuotientOf(Q, P, u, s)
    BY <1>2, <1>4, <1>7, DivIs
<1>9. /\ Q \in Seq(Scalars) /\ Len(Q) <= Len(P)
      /\ \A y \in Scalars : Congruent(Eval(P, y), Eval(Q, y) * (u + y) + s)
    BY <1>8 DEF QuotientOf
<1>10. Len(Q) <= Longer(Len(f), 1)
  <2>1. Len(P) \in Nat /\ Len(Q) \in Nat
      BY <1>7, <1>9, ScalarSeq
  <2> QED
      BY <1>1, <1>7, <1>9, <2>1 DEF Longer
<1>11. ASSUME NEW y \in Scalars PROVE Congruent(Eval(f, y) - v, Eval(Q, y) * (y - x))
  <2> DEFINE e == Eval(f, y)
             p == Eval(P, y)
             q == Eval(Q, y)
             px == Eval(P, x)
             qx == Eval(Q, x)
  <2>1. e \in Scalars /\ p \in Scalars /\ q \in Scalars /\ px \in Scalars /\ qx \in Scalars
      BY <1>7, <1>9, EvalIs
  <2>2. /\ Congruent(p, e + w) /\ Congruent(p, q * (u + y) + s)
        /\ Congruent(px, v + w) /\ Congruent(px, qx * (u + x) + s)
      BY <1>7, <1>9 DEF v
  <2> HIDE DEF e, p, q, px, qx
  <2>3. /\ e \in Int /\ p \in Int /\ q \in Int /\ px \in Int /\ qx \in Int
        /\ u \in Int /\ w \in Int /\ s \in Int /\ y \in Int
      BY <1>2, <1>3, <1>8, <2>1, ScalarsAre
  <2>4. Congruent(e - v, q * (y - x))
      BY <1>1, <1>2, <1>3, <2>2, <2>3, NothingLeft
  <2> QED
      BY <2>4 DEF e, q
<1> QED
    BY <1>9, <1>10, <1>11 DEF Q, v
-----------------------------------------------------------------------------
(* Commitments *)

\* A polynomial that can be committed to has no more coefficients than there are powers.
LEMMA CommitsShort ==
    ASSUME NEW f \in Seq(Scalars), Len(f) < UsizeSize, NEW tau \in Scalars, KzgCommits(f, tau)
    PROVE  Len(f) <= MaxDegree + 1
<1> DEFINE l == Len(f)
           U == UsizeSize
<1>1. l \in Nat /\ U \in Nat \ {0} /\ l < U /\ MaxDegree \in Nat /\ MaxDegree + 1 \in Nat
    BY ScalarSeq, PolynomialAssumption, ThresholdSigAssumption
<1>2. Len(KzgNew(tau)) = MaxDegree + 1
    BY <1>1, PowersRuns DEF KzgNew
<1>3. (((l - 1) % U) + 1) % U <= MaxDegree + 1
    BY <1>2 DEF KzgCommits, Degree
<1> HIDE DEF l, U
<1>4. CASE l = 0
    BY <1>1, <1>4 DEF l
<1>5. CASE l # 0
  <2>1. l - 1 \in 0 .. U - 1 /\ l \in 0 .. U - 1 /\ 0 * U + (l - 1) = l - 1 /\ 0 * U + l = l
      BY <1>1, <1>5
  <2>2. (l - 1) % U = l - 1 /\ l % U = l
      BY <1>1, <2>1, RemainderIs
  <2>3. (l - 1) + 1 = l
      BY <1>1
  <2> QED
      BY <1>3, <2>2, <2>3 DEF l
<1> QED
    BY <1>4, <1>5

\* A KZG opening verifies for the value of the polynomial and no other.
LEMMA KzgOpeningBinds ==
    ASSUME NEW f \in Seq(Scalars), Len(f) < UsizeSize, NEW tau \in Scalars, KzgCommits(f, tau),
           NEW x \in Scalars, NEW v \in Scalars
    PROVE  KzgVerify(KzgCommit(f, tau), x, v, KzgOpen(f, x, tau), tau) <=> v = Eval(f, x)
<1> DEFINE Q == Witness(f, x)
           M == MaxDegree + 1
           c == Eval(f, tau)
           e == Eval(f, x)
           q == Eval(Q, tau)
<1>1. M \in Nat /\ M >= 1 /\ Len(f) \in Nat /\ Len(f) <= M
    BY ThresholdSigAssumption, ScalarSeq, CommitsShort
<1>2. /\ Q \in Seq(Scalars) /\ Len(Q) <= Longer(Len(f), 1)
      /\ Congruent(c - e, q * (tau - x))
    BY WitnessIs
<1>3. Len(Q) <= M
  <2>1. Len(Q) \in Nat
      BY <1>2, ScalarSeq
  <2> QED
      BY <1>1, <1>2, <2>1 DEF Longer
<1>4. KzgCommit(f, tau) = c
    BY <1>1, MultiExpEval DEF KzgCommit, KzgNew
<1>5. KzgOpen(f, x, tau) = q
  <2>1. KzgOpen(f, x, tau) = KzgCommit(Q, tau)
      BY DEF KzgOpen, Witness
  <2> HIDE DEF Q
  <2>2. KzgCommit(Q, tau) = q
      BY <1>1, <1>2, <1>3, MultiExpEval DEF KzgCommit, KzgNew
  <2> QED
      BY <2>1, <2>2
<1>6. c \in Scalars /\ e \in Scalars /\ q \in Scalars
    BY <1>2, EvalIs
<1> HIDE DEF Q, c, e, q
<1>7. c \in Int /\ e \in Int /\ q \in Int /\ v \in Int /\ x \in Int /\ tau \in Int
    BY <1>6, ScalarsAre
<1> DEFINE d == Minus(tau, x)
           t == Times(q, d)
           m == Minus(c, v)
           p == q * (tau - x)
           g == c - e
           h == c - v
<1>8. d \in Scalars /\ Congruent(d, tau - x)
    BY <1>7, OperationsAre
<1>9. t \in Scalars /\ Congruent(t, p)
  <2>1. d \in Int /\ tau - x \in Int
    <3>1. d \in Int
      <4> HIDE DEF d
      <4> QED
          BY <1>8, ScalarsAre
    <3>2. tau - x \in Int
        BY <1>7
    <3> QED
        BY <3>1, <3>2
  <2> HIDE DEF d
  <2>2. t \in Scalars /\ Congruent(t, q * d) /\ q * d \in Int
    <3>1. t \in Scalars /\ Congruent(t, q * d)
        BY <1>7, <2>1, OperationsAre
    <3>2. q * d \in Int
        BY <1>7, <2>1
    <3> QED
        BY <3>1, <3>2
  <2>3. Congruent(q, q)
      BY <1>7, CongruentSelf
  <2> DEFINE w == tau - x
  <2>4. w \in Int /\ Congruent(d, w)
      BY <1>8, <2>1
  <2> HIDE DEF w
  <2>5. Congruent(q * d, q * w)
      BY <1>7, <2>1, <2>3, <2>4, CongruentProduct
  <2> DEFINE a == q * d
             b == q * w
  <2>6. a \in Int /\ b \in Int /\ t \in Int /\ Congruent(t, a) /\ Congruent(a, b)
    <3>1. a \in Int /\ b \in Int
        BY <1>7, <2>1, <2>4
    <3>2. t \in Int
        BY <2>2, ScalarsAre
    <3> HIDE DEF t
    <3> QED
        BY <2>2, <2>5, <3>1, <3>2
  <2> HIDE DEF a, b, t
  <2>7. Congruent(t, b)
      BY <2>6, CongruentTrans
  <2> QED
      BY <2>2, <2>7 DEF b, w
<1>10. m \in Scalars /\ Congruent(m, h)
    BY <1>7, OperationsAre
<1>11. p \in Int /\ g \in Int /\ h \in Int /\ t \in Int /\ m \in Int /\ Congruent(g, p)
  <2>1. tau - x \in Int /\ g \in Int /\ h \in Int
      BY <1>7
  <2>2. p \in Int
      BY <1>7, <2>1
  <2> QED
      BY <1>2, <1>9, <1>10, <2>1, <2>2, ScalarsAre
<1> HIDE DEF d, t, m, p
<1>12. Congruent(t, g)
  <2> HIDE DEF g
  <2>1. Congruent(p, g)
      BY <1>11, CongruentSym
  <2> QED
      BY <1>9, <1>11, <2>1, CongruentTrans
<1>13. m = t <=> Congruent(h, g)
  <2> HIDE DEF g, h
  <2> QED
      BY <1>9, <1>10, <1>11, <1>12, SameScalar
<1>14. Congruent(h, g) <=> v = e
  <2>1. ASSUME Congruent(h, g) PROVE v = e
    <3>1. PICK k \in Int : h - g = k * Prime
        BY <2>1 DEF Congruent
    <3>2. e - v = k * Prime
        BY <1>7, <3>1
    <3>3. Congruent(e, v)
        BY <3>2 DEF Congruent
    <3> QED
        BY <1>6, <3>3, ScalarsDiffer
  <2>2. ASSUME v = e PROVE Congruent(h, g)
      BY <1>11, <2>2, CongruentSelf
  <2> QED
      BY <2>1, <2>2
<1>15. KzgVerify(KzgCommit(f, tau), x, v, KzgOpen(f, x, tau), tau) <=> m = t
    BY <1>4, <1>5 DEF KzgVerify, m, t, d
<1> QED
    BY <1>13, <1>14, <1>15 DEF e

-----------------------------------------------------------------------------
(* Proofs of equal logarithms, vectors and coins *)

\* A proof that y is h times the logarithm of pk convinces exactly if it was made with that
\* logarithm and y is what it says.
LEMMA DLEqConvinces ==
    ASSUME NEW h \in Scalars \ {0}, NEW c \in Scalars \ {0}, NEW r \in Scalars,
           NEW w \in Scalars, NEW y \in Scalars, NEW pk \in Scalars
    PROVE  DLEqVerify(1, h, pk, y, DLEqProve(1, h, w, r, c), c)
               <=> w = pk /\ y = Times(h, w)
<1> DEFINE z == Minus(r, Times(w, c))
<1>1. h \in Int /\ c \in Int /\ r \in Int /\ w \in Int /\ y \in Int /\ pk \in Int
    BY ScalarsAre
<1>2. z \in Int /\ Congruent(z, r - w * c)
  <2>1. Times(w, c) \in Int /\ Congruent(Times(w, c), w * c)
      BY <1>1, OperationsAre, ScalarsAre
  <2>2. z \in Int /\ Congruent(z, r - Times(w, c))
      BY <1>1, <2>1, OperationsAre, ScalarsAre
  <2>3. Congruent(r, r)
      BY <1>1, CongruentSelf
  <2>4. Congruent(r - Times(w, c), r - w * c)
      BY <1>1, <2>1, <2>3, CongruentSum
  <2> QED
      BY <1>1, <2>1, <2>2, <2>4, CongruentTrans
<1> HIDE DEF z
<1>3. ASSUME NEW g \in Int, NEW x \in Int
      PROVE  Times(g, r) = Plus(Times(g, z), Times(x, c)) <=> Congruent(x, g * w)
  <2>1. /\ Times(g, z) \in Scalars /\ Congruent(Times(g, z), g * z)
        /\ Times(x, c) \in Scalars /\ Congruent(Times(x, c), x * c)
        /\ Times(g, r) \in Scalars /\ Congruent(Times(g, r), g * r)
      BY <1>1, <1>2, <1>3, OperationsAre
  <2> DEFINE s == Plus(Times(g, z), Times(x, c))
  <2>2. s \in Scalars /\ Congruent(s, Times(g, z) + Times(x, c))
      BY <2>1, OperationsAre, ScalarsAre
  <2> HIDE DEF s
  <2>3. Congruent(g * z, g * (r - w * c))
    <3> DEFINE d == r - w * c
    <3>1. d \in Int /\ Congruent(z, d) /\ Congruent(g, g)
        BY <1>1, <1>2, <1>3, CongruentSelf
    <3> HIDE DEF d
    <3>2. Congruent(g * z, g * d)
        BY <1>2, <1>3, <3>1, CongruentProduct
    <3> QED
        BY <3>2 DEF d
  <2> DEFINE u == g * (r - w * c)
             gz == g * z
             xc == x * c
             gr == g * r
  <2>4. u \in Int /\ gz \in Int /\ xc \in Int /\ gr \in Int
      BY <1>1, <1>2, <1>3
  <2>5. /\ Congruent(Times(g, z), gz) /\ Congruent(gz, u)
        /\ Congruent(Times(x, c), xc) /\ Congruent(Times(g, r), gr)
      BY <2>1, <2>3
  <2>6. u = gr - (g * w) * c
      BY <1>1, <1>3
  <2> HIDE DEF u, gz, xc, gr
  <2>7. Congruent(Times(g, z), u)
      BY <2>1, <2>4, <2>5, CongruentTrans, ScalarsAre
  <2>8. Congruent(Times(g, z) + Times(x, c), u + xc)
      BY <2>1, <2>4, <2>5, <2>7, CongruentSum, ScalarsAre
  <2>9. Congruent(s, u + xc)
    <3> DEFINE v == Times(g, z) + Times(x, c)
               e == u + xc
    <3>1. s \in Int /\ v \in Int /\ e \in Int /\ Congruent(s, v) /\ Congruent(v, e)
      <4>1. Times(g, z) \in Int /\ Times(x, c) \in Int /\ s \in Int
          BY <2>1, <2>2, ScalarsAre
      <4>2. v \in Int /\ e \in Int
          BY <2>4, <4>1
      <4> QED
          BY <2>2, <2>8, <4>1, <4>2
    <3> HIDE DEF v, e
    <3>2. Congruent(s, e)
        BY <3>1, CongruentTrans
    <3> QED
        BY <3>2 DEF e
  <2>10. Times(g, r) = s <=> Congruent(gr, u + xc)
      BY <2>1, <2>2, <2>4, <2>5, <2>9, SameScalar
  <2>11. Congruent(gr, u + xc) <=> Congruent(c * x, c * (g * w))
    <3> DEFINE gw == g * w
    <3>1. gw \in Int /\ u = gr - gw * c /\ xc = x * c
        BY <1>1, <1>3, <2>6 DEF xc
    <3> HIDE DEF gw
    <3>2. /\ (gr - (u + xc)) = c * gw - c * x
          /\ c * x \in Int /\ c * gw \in Int
      <4>1. x * c = c * x /\ gw * c = c * gw /\ c * x \in Int /\ c * gw \in Int
          BY <1>1, <1>3, <3>1
      <4> QED
          BY <2>4, <3>1, <4>1
    <3>3. Congruent(gr, u + xc) <=> Congruent(c * gw, c * x)
        BY <3>2 DEF Congruent
    <3> QED
        BY <3>2, <3>3, CongruentSym DEF gw
  <2>12. Congruent(c * x, c * (g * w)) <=> Congruent(x, g * w)
    <3> DEFINE gw == g * w
    <3>1. gw \in Int /\ c \in Int /\ x \in Int /\ Congruent(c, c)
        BY <1>1, <1>3, CongruentSelf
    <3> HIDE DEF gw
    <3>2. Congruent(c * x, c * gw) => Congruent(x, gw)
        BY <3>1, TimesCancels
    <3>3. Congruent(x, gw) => Congruent(c * x, c * gw)
        BY <3>1, CongruentProduct
    <3> QED
        BY <3>2, <3>3 DEF gw
  <2> QED
      BY <2>10, <2>11, <2>12 DEF s
<1>4. Times(1, r) = Plus(Times(1, z), Times(pk, c)) <=> w = pk
  <2>1. 1 * w = w
      BY <1>1
  <2>2. Congruent(pk, 1 * w) <=> w = pk
      BY <1>1, <2>1, ScalarsDiffer, CongruentSelf
  <2> QED
      BY <1>1, <1>3, <2>2
<1>5. Times(h, r) = Plus(Times(h, z), Times(y, c)) <=> y = Times(h, w)
  <2>1. Times(h, w) \in Scalars /\ Congruent(Times(h, w), h * w) /\ h * w \in Int
      BY <1>1, OperationsAre
  <2>2. Congruent(y, h * w) <=> y = Times(h, w)
    <3> DEFINE t == Times(h, w)
               e == h * w
    <3>1. /\ t \in Scalars /\ Congruent(t, e) /\ e \in Int
          /\ y \in Scalars /\ y \in Int /\ Congruent(y, y)
        BY <1>1, <2>1, CongruentSelf
    <3> HIDE DEF t, e
    <3> QED
        BY <3>1, SameScalar DEF t, e
  <2> QED
      BY <1>1, <1>3, <2>2
<1> QED
    BY <1>4, <1>5 DEF DLEqVerify, DLEqProve, z

\* A Feldman opening verifies for the value of the polynomial and no other.
LEMMA FeldmanOpeningBinds ==
    ASSUME NEW f \in Seq(Scalars), NEW x \in Scalars, NEW v \in Scalars
    PROVE  FeldmanVerify(f, x, v) <=> v = FeldmanOpen(f, x)
    BY EvalPowersIs DEF FeldmanVerify, FeldmanOpen

\* The polynomial of a vector has its items as values.
LEMMA VectorPolyIs ==
    ASSUME NEW vec \in Seq(Scalars), vec # <<>>, Len(vec) <= Prime
    PROVE  /\ VectorPoly(vec) \in Seq(Scalars) /\ Len(VectorPoly(vec)) <= Len(vec)
           /\ \A i \in 1 .. Len(vec) : i - 1 \in Scalars /\ Eval(VectorPoly(vec), i - 1) = vec[i]
<1> DEFINE n == Len(vec)
           xs == [i \in DOMAIN vec |-> i - 1]
           g == Interpolate(xs, vec)
           t == Trim(g)
<1>1. n \in Nat /\ DOMAIN vec = 1 .. n /\ n <= Prime /\ Prime \in Nat
    BY ScalarSeq, PrimeIs
<1>2. n >= 1
  <2>1. ASSUME n = 0 PROVE FALSE
      BY <2>1
  <2> QED
      BY <1>1, <2>1
<1>3. VectorPoly(vec) = t
    BY DEF VectorPoly
<1>4. xs \in Seq(Scalars) /\ Len(xs) = n /\ Apart(xs) /\ \A i \in 1 .. n : xs[i] = i - 1 /\ i - 1 \in Scalars
  <2>1. xs = [i \in 1 .. n |-> i - 1]
      BY <1>1
  <2> HIDE DEF xs, n
  <2>2. \A i \in 1 .. n : i - 1 \in Scalars
      BY <1>1 DEF Scalars
  <2>3. xs \in Seq(Scalars) /\ Len(xs) = n /\ \A i \in 1 .. n : xs[i] = i - 1
      BY <1>1, <2>1, <2>2
  <2>4. Apart(xs)
    <3>1. DOMAIN xs = 1 .. n
        BY <2>1
    <3> QED
        BY <2>3, <3>1 DEF Apart
  <2> QED
      BY <2>2, <2>3, <2>4
<1> HIDE DEF xs, t
<1>5. Fits(g, xs, vec, 1, n)
  <2>1. xs # <<>>
    <3>1. ASSUME xs = <<>> PROVE FALSE
      <4>1. Len(xs) = Len(<<>>)
          BY <3>1
      <4>2. Len(<<>>) = 0
          OBVIOUS
      <4> HIDE DEF n
      <4> QED
          BY <1>2, <1>4, <4>1, <4>2
    <3> QED
        BY <3>1
  <2>2. Len(vec) = Len(xs)
      BY <1>4
  <2>3. Fits(g, xs, vec, 1, Len(xs))
      BY <1>4, <2>1, <2>2, InterpolateFits
  <2> QED
      BY <1>4, <2>3
<1> HIDE DEF g
<1>6. g \in Seq(Scalars) /\ Len(g) = n /\ \A m \in 1 .. n : Eval(g, m - 1) = vec[m]
  <2>1. g \in Seq(Scalars) /\ Len(g) = n - 1 + 1 /\ \A m \in 1 .. n : Eval(g, xs[m]) = vec[m]
      BY <1>5 DEF Fits
  <2>2. n - 1 + 1 = n
      BY <1>1
  <2> QED
      BY <1>4, <2>1, <2>2
<1>7. t \in Seq(Scalars) /\ Len(t) <= n /\ \A k \in Nat : Coef(t)[k] = Coef(g)[k]
    BY <1>6, TrimIs DEF t
<1>8. \A x \in Scalars : Eval(t, x) = Eval(g, x)
    BY <1>6, <1>7, SameCoefsEval
<1> QED
    BY <1>3, <1>4, <1>6, <1>7, <1>8

\* A coin comes up true for the share of the hashes that it says.
LEMMA CoinFair ==
    ASSUME NEW denom \in 1 .. UsizeSize, NEW num \in 0 .. UsizeSize,
           RangeAllowed(0, denom), num <= denom
    PROVE  Cardinality({hash \in 0 .. UsizeSize - 1 : RandCoin(hash, num, denom)}) * denom = num * UsizeSize
<1> DEFINE U == UsizeSize
           heads == {hash \in 0 .. U - 1 : RandCoin(hash, num, denom)}
           m == U \div denom
           S == (0 .. num - 1) \X (0 .. m - 1)
           f == [p \in S |-> p[2] * denom + p[1]]
<1>1. U \in Nat \ {0} /\ denom \in Nat \ {0} /\ num \in Nat /\ num <= denom
    BY PolynomialAssumption
<1>2. U % denom = 0
  <2>1. PICK k \in 0 .. U : 2^k = denom - 0
      BY DEF RangeAllowed
  <2>2. 2^k = denom /\ denom <= U
      BY <1>1, <2>1
  <2> QED
      BY <2>2, ThresholdSigAssumption
<1>3. m \in Nat /\ U = m * denom
  <2>1. m \in Int /\ U % denom \in 0 .. denom - 1 /\ U = denom * m + (U % denom)
      BY <1>1, Division
  <2> HIDE DEF m
  <2>2. U = denom * m
      BY <1>1, <1>2, <2>1
  <2>3. m >= 0
    <3>1. ASSUME m <= -1 PROVE FALSE
      <4>1. denom * m <= -denom
          BY <1>1, <2>1, <3>1
      <4> QED
          BY <1>1, <2>2, <4>1
    <3> QED
        BY <2>1, <3>1
  <2> QED
      BY <1>1, <2>1, <2>2, <2>3
<1>4. ASSUME NEW hash \in 0 .. U - 1 PROVE RandCoin(hash, num, denom) <=> hash % denom < num
  <2>1. denom - 0 = denom /\ hash % denom \in Int
      BY <1>1
  <2> QED
      BY <2>1 DEF RandCoin, RandRange
<1> HIDE DEF U, m
<1>5. ASSUME NEW r \in 0 .. num - 1, NEW q \in 0 .. m - 1
      PROVE  q * denom + r \in heads /\ (q * denom + r) % denom = r
  <2>1. r \in 0 .. denom - 1 /\ q \in Int /\ r \in Int /\ r < num
      BY <1>1
  <2>2. (q * denom + r) % denom = r
      BY <1>1, <2>1, RemainderIs
  <2> DEFINE a == q * denom
  <2>3. a \in Nat /\ a + denom <= U
    <3>1. a \in Nat
        BY <1>1, <1>5
    <3>2. q + 1 <= m /\ q + 1 \in Nat
        BY <1>3, <1>5
    <3>3. (q + 1) * denom <= m * denom
        BY <1>1, <1>3, <3>2
    <3>4. (q + 1) * denom = a + denom
        BY <1>1, <2>1
    <3> QED
        BY <1>3, <3>1, <3>3, <3>4
  <2>4. a + r \in 0 .. U - 1
    <3> HIDE DEF a
    <3> QED
        BY <1>1, <2>1, <2>3
  <2>5. RandCoin(a + r, num, denom)
      BY <1>4, <2>1, <2>2, <2>4
  <2> QED
      BY <2>2, <2>4, <2>5
<1>6. \A p \in S : f[p] = p[2] * denom + p[1] /\ p[1] \in 0 .. num - 1 /\ p[2] \in 0 .. m - 1 /\ p = <<p[1], p[2]>>
    OBVIOUS
<1>7. f \in [S -> heads]
    BY <1>5, <1>6
<1>8. ASSUME NEW p \in S, NEW q \in S, f[p] = f[q] PROVE p = q
  <2>1. p[1] = q[1]
      BY <1>5, <1>6, <1>8
  <2> DEFINE a == p[2]
             b == q[2]
             r == p[1]
  <2>2. a \in Int /\ b \in Int /\ r \in Int /\ a * denom + r = b * denom + r
      BY <1>6, <1>8, <2>1
  <2> HIDE DEF a, b, r
  <2>3. a = b
    <3> DEFINE d == a - b
    <3>1. d \in Int /\ d * denom = 0
      <4>1. d * denom = a * denom - b * denom
          BY <1>1, <2>2
      <4>2. a * denom \in Int /\ b * denom \in Int
          BY <1>1, <2>2
      <4> QED
          BY <2>2, <4>1, <4>2
    <3> HIDE DEF d
    <3>2. d = 0
      <4>1. ASSUME d >= 1 PROVE FALSE
        <5>1. d * denom >= denom
            BY <1>1, <3>1, <4>1
        <5> QED
            BY <1>1, <3>1, <5>1
      <4>2. ASSUME d <= -1 PROVE FALSE
        <5>1. d * denom <= -denom
            BY <1>1, <3>1, <4>2
        <5> QED
            BY <1>1, <3>1, <5>1
      <4> QED
          BY <3>1, <4>1, <4>2
    <3> QED
        BY <2>2, <3>2 DEF d
  <2> QED
      BY <1>6, <2>1, <2>3 DEF a, b
<1>9. ASSUME NEW hash \in heads PROVE \E p \in S : f[p] = hash
  <2>1. hash \in 0 .. U - 1 /\ hash % denom < num
      BY <1>4
  <2> DEFINE q == hash \div denom
             r == hash % denom
  <2>2. q \in Int /\ r \in 0 .. denom - 1 /\ hash = denom * q + r
    <3>1. hash \in Int
        BY <1>1, <2>1
    <3>2. /\ hash \div denom \in Int /\ hash % denom \in 0 .. denom - 1
          /\ hash = denom * (hash \div denom) + (hash % denom)
        BY <1>1, <3>1, Division
    <3> QED
        BY <3>2
  <2>3. r \in 0 .. num - 1
      BY <1>1, <2>1, <2>2
  <2> HIDE DEF q, r
  <2>4. q >= 0
    <3>1. ASSUME q <= -1 PROVE FALSE
      <4>1. denom * q <= -denom
          BY <1>1, <2>2, <3>1
      <4> QED
          BY <1>1, <2>1, <2>2, <4>1
    <3> QED
        BY <2>2, <3>1
  <2>5. q < m
    <3>1. ASSUME q >= m PROVE FALSE
      <4>1. denom * q >= denom * m /\ denom * m = m * denom
          BY <1>1, <1>3, <2>2, <3>1
      <4> QED
          BY <1>1, <1>3, <2>1, <2>2, <4>1
    <3> QED
        BY <1>3, <2>2, <3>1
  <2>6. <<r, q>> \in S /\ q * denom + r = hash
    <3>1. q \in 0 .. m - 1
        BY <1>3, <2>2, <2>4, <2>5
    <3>2. q * denom = denom * q
        BY <1>1, <2>2
    <3> QED
        BY <1>1, <2>2, <2>3, <3>1, <3>2
  <2>7. f[<<r, q>>] = q * denom + r
      BY <2>6
  <2> QED
      BY <2>6, <2>7
<1>10. f \in Bijection(S, heads)
  <2> HIDE DEF f, S, heads
  <2> QED
      BY <1>7, <1>8, <1>9 DEF Bijection, Injection, Surjection, IsInjective
<1>11. IsFiniteSet(S) /\ Cardinality(S) = num * m
  <2>1. IsFiniteSet(0 .. num - 1) /\ Cardinality(0 .. num - 1) = num
    <3>1. num - 1 \in Int /\ 0 \in Int
        BY <1>1
    <3>2. /\ IsFiniteSet(0 .. num - 1)
          /\ Cardinality(0 .. num - 1) = IF 0 > num - 1 THEN 0 ELSE (num - 1) - 0 + 1
        BY <3>1, FS_Interval
    <3> QED
        BY <1>1, <3>2
  <2>2. IsFiniteSet(0 .. m - 1) /\ Cardinality(0 .. m - 1) = m
    <3>1. m - 1 \in Int /\ 0 \in Int
        BY <1>3
    <3>2. /\ IsFiniteSet(0 .. m - 1)
          /\ Cardinality(0 .. m - 1) = IF 0 > m - 1 THEN 0 ELSE (m - 1) - 0 + 1
        BY <3>1, FS_Interval
    <3> QED
        BY <1>3, <3>2
  <2> DEFINE A == 0 .. num - 1
             B == 0 .. m - 1
  <2>3. IsFiniteSet(A) /\ Cardinality(A) = num /\ IsFiniteSet(B) /\ Cardinality(B) = m
      BY <2>1, <2>2
  <2> HIDE DEF A, B
  <2>4. IsFiniteSet(A \X B) /\ Cardinality(A \X B) = Cardinality(A) * Cardinality(B)
      BY <2>3, FS_Product
  <2> QED
      BY <2>3, <2>4 DEF A, B
<1> HIDE DEF S, f
<1>12. Cardinality(heads) = num * m
    BY <1>10, <1>11, FS_Bijection DEF ExistsBijection
<1>13. (num * m) * denom = num * U
    BY <1>1, <1>3
<1> QED
    BY <1>12, <1>13 DEF heads, U

-----------------------------------------------------------------------------
(* Sharing a key *)

\* Holders are scalars other than nought, where the key is.
LEMMA HoldersAre == Prime \in Nat /\ N \in Nat /\ N < Prime /\ Holders \subseteq Scalars /\ 0 \notin Holders
    BY PrimeIs, ThresholdSigAssumption DEF Holders, Scalars

\* What fewer holders than the threshold have fits every key.
LEMMA FewerFit ==
    ASSUME NEW f \in Seq(Scalars), NEW S \in SUBSET Holders, NEW t \in 1 .. N, Cardinality(S) < t,
           NEW sk \in Scalars
    PROVE  \E g \in Sharings(sk, t) : \A i \in S : Eval(g, i) = Eval(f, i)
<1> DEFINE P == S \cup {0}
           n == Cardinality(S) + 1
           D == 1 .. n
           Value(x) == IF x = 0 THEN sk ELSE Eval(f, x)
<1>1. N \in Nat /\ S \subseteq Scalars /\ 0 \notin S /\ 0 \in Scalars /\ P \subseteq Scalars
    BY HoldersAre, ScalarsAre
<1>2. IsFiniteSet(P) /\ Cardinality(P) = n /\ n \in Nat \ {0} /\ n <= t
  <2>1. IsFiniteSet(Holders)
    <3>1. IsFiniteSet(1 .. N)
        BY HoldersAre, FS_Interval
    <3> QED
        BY <3>1 DEF Holders
  <2>2. IsFiniteSet(S)
      BY <2>1, FS_Subset
  <2>3. Cardinality(S) \in Nat
      BY <2>2, FS_CardinalityType
  <2>4. IsFiniteSet(P) /\ Cardinality(P) = Cardinality(S) + 1
      BY <1>1, <2>2, FS_AddElement
  <2> QED
      BY <1>1, <2>3, <2>4
<1> HIDE DEF n, P
<1>3. PICK xs : xs \in Bijection(D, P)
    BY <1>2, FS_CardinalityType DEF ExistsBijection
<1>4. /\ xs \in [D -> P] /\ (\A i, j \in D : xs[i] = xs[j] => i = j)
      /\ \A x \in P : \E i \in D : xs[i] = x
    BY <1>3 DEF Bijection, Injection, Surjection, IsInjective
<1>5. xs \in Seq(Scalars) /\ Len(xs) = n /\ Apart(xs) /\ xs # <<>> /\ DOMAIN xs = D
  <2>1. xs \in Seq(Scalars) /\ Len(xs) = n /\ DOMAIN xs = D
      BY <1>1, <1>2, <1>4
  <2>2. ASSUME xs = <<>> PROVE FALSE
    <3>1. Len(xs) = Len(<<>>)
        BY <2>2
    <3>2. Len(<<>>) = 0
        OBVIOUS
    <3> QED
        BY <1>2, <2>1, <3>1, <3>2
  <2> HIDE DEF D
  <2> QED
      BY <1>4, <2>1, <2>2 DEF Apart
<1> DEFINE ys == [i \in D |-> Value(xs[i])]
           g == Interpolate(xs, ys)
           h == Trim(g)
<1>6. \A x \in P : Value(x) \in Scalars
  <2>1. ASSUME NEW x \in P PROVE Eval(f, x) \in Scalars
      BY <1>1, EvalIs
  <2> QED
      BY <2>1
<1> HIDE DEF Value
<1>7. ys \in Seq(Scalars) /\ Len(ys) = n /\ \A i \in D : ys[i] = Value(xs[i])
  <2>1. \A i \in D : Value(xs[i]) \in Scalars
      BY <1>4, <1>6
  <2> QED
      BY <1>2, <2>1
<1> HIDE DEF ys, g
<1>8. Fits(g, xs, ys, 1, n)
  <2>1. Len(ys) = Len(xs)
      BY <1>5, <1>7
  <2>2. Fits(g, xs, ys, 1, Len(xs))
      BY <1>5, <1>7, <2>1, InterpolateFits DEF g
  <2> QED
      BY <1>5, <2>2
<1>9. g \in Seq(Scalars) /\ Len(g) = n /\ \A i \in D : Eval(g, xs[i]) = Value(xs[i])
  <2>1. n - 1 + 1 = n
      BY <1>2
  <2> QED
      BY <1>7, <1>8, <2>1 DEF Fits
<1>10. /\ h \in Seq(Scalars) /\ Len(h) <= n /\ (Len(h) # 0 => h[Len(h)] # 0)
       /\ \A k \in Nat : Coef(h)[k] = Coef(g)[k]
    BY <1>9, TrimIs
<1> HIDE DEF h, D
<1>11. \A x \in Scalars : Eval(h, x) = Eval(g, x)
    BY <1>9, <1>10, SameCoefsEval
<1>12. \A x \in P : Eval(h, x) = Value(x)
    BY <1>1, <1>4, <1>9, <1>11
<1>13. Eval(h, 0) = sk /\ \A i \in S : Eval(h, i) = Eval(f, i)
    BY <1>1, <1>12 DEF P, Value
<1>14. h \in Sharings(sk, t)
  <2>1. t - 1 \in Nat /\ t - 1 < Prime /\ (t - 1) + 1 = t
      BY HoldersAre
  <2>2. Len(h) <= t
    <3>1. Len(h) \in Nat
        BY <1>10, ScalarSeq
    <3> QED
        BY <1>2, <1>10, <2>1, <3>1
  <2>3. Shares(h, sk, t)
      BY <1>10, <1>13, <2>2 DEF Shares
  <2>4. Shares(h, sk, (t - 1) + 1)
      BY <2>1, <2>3
  <2>5. h \in Samples(t - 1, [x \in {0} |-> sk])
      BY <2>1, <2>4, SamplesAre
  <2> QED
      BY <2>5 DEF Sharings
<1> QED
    BY <1>13, <1>14

\* What a dealer samples has the key at nought and no more coefficients than the threshold.
LEMMA SharingIs ==
    ASSUME NEW sk \in Scalars, NEW t \in 1 .. N, NEW f \in Sharings(sk, t)
    PROVE  Shares(f, sk, t)
<1>1. t - 1 \in Nat /\ t - 1 < Prime /\ (t - 1) + 1 = t
    BY HoldersAre
<1>2. f \in Samples(t - 1, [x \in {0} |-> sk])
    BY DEF Sharings
<1>3. Shares(f, sk, (t - 1) + 1)
    BY <1>1, <1>2, SamplesAre
<1> QED
    BY <1>1, <1>3

-----------------------------------------------------------------------------
(* The invariant *)

\* The holders of some parts
Signers(S) == {s.idx : s \in S}

\* The parts collected are those of different holders, and whoever is counted
\* anywhere has left a key behind.
CollectedInv ==
    /\ threshold \in Nat
    /\ keys \subseteq Holders
    /\ sigs \in Seq(PartialSignature)
    /\ \A k \in DOMAIN sigs : sigs[k].idx \in keys
    /\ \A k, l \in DOMAIN sigs : sigs[k].idx = sigs[l].idx => k = l

\* What was combined is of holders that have left a key, enough of them, and nobody
\* that is collected or in another combination.
CombinedInv ==
    \A c \in combined :
        /\ Signers(c.from) \subseteq keys
        /\ Cardinality(Signers(c.from)) >= threshold
        /\ Signers(c.from) \cap Signers(ToSet(sigs)) = {}
        /\ \A d \in combined \ {c} : Signers(c.from) \cap Signers(d.from) = {}

\* The polynomial is one a dealer may have sampled.
DealtInv ==
    /\ threshold \in Thresholds
    /\ dealt \in Seq(Scalars) /\ Len(dealt) <= threshold
    /\ Len(dealt) # 0 => dealt[Len(dealt)] # 0

\* A part is the value of the polynomial at its holder, times the message, and what is
\* made of parts is that at nought.
SignedInv ==
    /\ \A k \in DOMAIN sigs : sigs[k].data = Times(Message, Share(sigs[k].idx))
    /\ \A c \in combined : c.from \subseteq PartialSignature /\ c.sig = Times(Message, PublicKey)

\* All four together are inductive.
IInv == CollectedInv /\ CombinedInv /\ DealtInv /\ SignedInv
-----------------------------------------------------------------------------
\* There are as many signers as parts.
LEMMA OneEach ==
    ASSUME CollectedInv PROVE Cardinality(Signers(ToSet(sigs))) = Len(sigs)
<1> DEFINE D == 1 .. Len(sigs)
           T == Signers(ToSet(sigs))
           f == [k \in D |-> sigs[k].idx]
<1>1. Len(sigs) \in Nat /\ DOMAIN sigs = D
    BY DEF CollectedInv
<1>2. T = {sigs[k].idx : k \in D}
    BY <1>1 DEF Signers, ToSet
<1>3. f \in Bijection(D, T)
    BY <1>1, <1>2 DEF CollectedInv, Bijection, Injection, Surjection, IsInjective
<1>4. ExistsBijection(D, T)
    BY <1>3 DEF ExistsBijection
<1>5. IsFiniteSet(D) /\ Cardinality(D) = Len(sigs)
  <2> DEFINE n == Len(sigs)
  <2>1. n \in Nat
    BY <1>1
  <2> HIDE DEF n
  <2>2. IsFiniteSet(1 .. n) /\ Cardinality(1 .. n) = IF 1 > n THEN 0 ELSE n - 1 + 1
    BY <2>1, FS_Interval
  <2>3. Cardinality(1 .. n) = n
    BY <2>1, <2>2
  <2> QED
    BY <2>2, <2>3 DEF n
<1> HIDE DEF D, T
<1>6. Cardinality(T) = Len(sigs)
    BY <1>4, <1>5, FS_Bijection
<1> QED
    BY <1>6 DEF T

\* Thresholds are numbers of holders.
LEMMA ThresholdsAre == ASSUME NEW t \in Thresholds PROVE t \in Nat /\ t \in 1 .. N /\ t >= 1 /\ t <= N
<1>1. N \in Nat /\ t \in 1 .. N
    BY HoldersAre, ThresholdSigAssumption
<1> QED
    BY <1>1

\* The dealer samples a polynomial with the key at nought.
LEMMA InitIInv == Init => IInv
<1> SUFFICES ASSUME Init PROVE IInv
    OBVIOUS
<1>1. \E t \in Thresholds, sk \in Scalars : \E f \in Sharings(sk, t) : threshold = t /\ dealt = f
  <2>1. PICK sharing \in AllSharings : threshold = sharing.threshold /\ dealt = sharing.poly
      BY DEF Init
  <2>2. PICK t \in Thresholds, sk \in Scalars :
            \E f \in Sharings(sk, t) : sharing = [threshold |-> t, sk |-> sk, poly |-> f]
      BY DEF AllSharings
  <2>3. PICK f \in Sharings(sk, t) : sharing = [threshold |-> t, sk |-> sk, poly |-> f]
      BY <2>2
  <2>4. threshold = t /\ dealt = f
      BY <2>1, <2>3
  <2> QED
      BY <2>4
<1>7. PICK t \in Thresholds, sk \in Scalars : \E f \in Sharings(sk, t) : threshold = t /\ dealt = f
    BY <1>1
<1>8. PICK f \in Sharings(sk, t) : threshold = t /\ dealt = f
    BY <1>7
<1>2. t \in 1 .. N /\ t \in Nat
    BY ThresholdsAre
<1>3. Shares(f, sk, t)
    BY <1>2, SharingIs
<1>4. DealtInv
    BY <1>8, <1>3 DEF DealtInv, Shares
<1>5. keys = {} /\ sigs = <<>> /\ combined = {}
    BY DEF Init
<1>6. CollectedInv /\ CombinedInv /\ SignedInv
    BY <1>8, <1>2, <1>5 DEF CollectedInv, CombinedInv, SignedInv
<1> QED
    BY <1>4, <1>6 DEF IInv

\* Where the parts collected were made, and what they are there
Places == [k \in DOMAIN sigs |-> sigs[k].idx]
Values == [k \in DOMAIN sigs |-> sigs[k].data]

\* They are values of the polynomial times the message, at different places.
LEMMA PartsAre ==
    ASSUME IInv
    PROVE  /\ Places \in Seq(Scalars) /\ Len(Places) = Len(sigs) /\ Apart(Places)
           /\ Values \in Seq(Scalars) /\ Len(Values) = Len(sigs)
           /\ Scaled(Message, dealt) \in Seq(Scalars) /\ Len(Scaled(Message, dealt)) = Len(dealt)
           /\ \A k \in 1 .. Len(sigs) : Eval(Scaled(Message, dealt), Places[k]) = Values[k]
<1> DEFINE q == Scaled(Message, dealt)
           n == Len(sigs)
<1>1. sigs \in Seq(PartialSignature) /\ n \in Nat /\ DOMAIN sigs = 1 .. n
    BY DEF IInv, CollectedInv
<1>2. dealt \in Seq(Scalars) /\ Message \in Scalars
    BY ThresholdSigAssumption DEF IInv, DealtInv
<1>3. q \in Seq(Scalars) /\ Len(q) = Len(dealt) /\ \A x \in Scalars : Eval(q, x) = Times(Message, Eval(dealt, x))
    BY <1>2, ScaledIs
<1> HIDE DEF q, n
<1>4. \A k \in 1 .. n : sigs[k].idx \in Scalars /\ sigs[k].data \in Scalars
  <2>1. SUFFICES ASSUME NEW k \in 1 .. n PROVE sigs[k].idx \in Scalars /\ sigs[k].data \in Scalars
      OBVIOUS
  <2>2. sigs[k] \in PartialSignature
      BY <1>1
  <2>3. sigs[k].idx \in Holders /\ sigs[k].data \in Scalars
      BY <2>2 DEF PartialSignature
  <2> QED
      BY <2>3, HoldersAre
<1>5. Places \in Seq(Scalars) /\ Len(Places) = n /\ DOMAIN Places = 1 .. n
      /\ \A k \in 1 .. n : Places[k] = sigs[k].idx
    BY <1>1, <1>4 DEF Places
<1>6. Values \in Seq(Scalars) /\ Len(Values) = n /\ \A k \in 1 .. n : Values[k] = sigs[k].data
    BY <1>1, <1>4 DEF Values
<1>7. Apart(Places)
    BY <1>1, <1>5 DEF Apart, IInv, CollectedInv
<1>8. ASSUME NEW k \in 1 .. n PROVE Eval(q, Places[k]) = Values[k]
  <2>1. Values[k] = Times(Message, Eval(dealt, Places[k]))
      BY <1>1, <1>5, <1>6 DEF IInv, SignedInv, Share
  <2> QED
      BY <1>3, <1>4, <1>5, <2>1
<1> QED
    BY <1>3, <1>5, <1>6, <1>7, <1>8 DEF n, q

\* From as many parts as the threshold says, the polynomial is found, and its value at nought.
LEMMA Interpolated ==
    ASSUME IInv, Len(sigs) >= threshold
    PROVE  /\ Trim(Interpolate(Places, Values)) = Scaled(Message, dealt)
           /\ CombineSigs(sigs) = Times(Message, PublicKey)
<1> DEFINE q == Scaled(Message, dealt)
           n == Len(sigs)
           g == Interpolate(Places, Values)
           h == Trim(g)
<1>1. /\ Places \in Seq(Scalars) /\ Len(Places) = n /\ Apart(Places)
      /\ Values \in Seq(Scalars) /\ Len(Values) = n
      /\ q \in Seq(Scalars) /\ Len(q) = Len(dealt)
      /\ \A k \in 1 .. n : Eval(q, Places[k]) = Values[k]
    BY PartsAre
<1>2. n \in Nat /\ n >= 1 /\ Len(q) <= n /\ dealt \in Seq(Scalars)
  <2>1. threshold \in Nat /\ threshold >= 1 /\ n >= threshold
      BY ThresholdsAre DEF IInv, DealtInv
  <2>2. Len(dealt) <= threshold /\ dealt \in Seq(Scalars)
      BY DEF IInv, DealtInv
  <2>3. n \in Nat /\ Len(dealt) \in Nat
      BY <1>1, <2>2, ScalarSeq
  <2> QED
      BY <1>1, <2>1, <2>2, <2>3
<1>3. Message \in Scalars \ {0} /\ 0 \in Scalars /\ 1 \in 1 .. n /\ n \in 1 .. n
    BY <1>2, ThresholdSigAssumption, ScalarsAre
<1>4. \A i \in 1 .. Len(dealt) : q[i] = Times(Message, dealt[i])
    BY <1>2, <1>3, ScaledIs
<1>5. \A x \in Scalars : Eval(q, x) = Times(Message, Eval(dealt, x))
    BY <1>2, <1>3, ScaledIs
<1> HIDE DEF q, n
<1>6. Places # <<>>
  <2>1. ASSUME Places = <<>> PROVE FALSE
    <3>1. Len(Places) = Len(<<>>)
        BY <2>1
    <3>2. Len(<<>>) = 0
        OBVIOUS
    <3> QED
        BY <1>1, <1>2, <3>1, <3>2
  <2> QED
      BY <2>1
<1>7. Fits(g, Places, Values, 1, n)
  <2>1. Len(Values) = Len(Places)
      BY <1>1
  <2>2. Fits(g, Places, Values, 1, Len(Places))
      BY <1>1, <1>6, <2>1, InterpolateFits
  <2> QED
      BY <1>1, <2>2
<1>8. g \in Seq(Scalars)
    BY <1>7 DEF Fits
<1>9. CombineSigs(sigs) = LagrangeAt(Places, Values, 0)
    BY DEF CombineSigs, Places, Values
<1>10. LagrangeAt(Places, Values, 0) = Eval(g, 0)
    BY <1>1, <1>3, <1>6, LagrangeAtIs
<1> HIDE DEF g
<1>11. (\A k \in Nat : Coef(g)[k] = Coef(q)[k]) /\ \A x \in Scalars : Eval(g, x) = Eval(q, x)
  <2>1. Len(q) <= n - 1 + 1 /\ 1 <= n
      BY <1>2
  <2>2. 1 \in 1 .. Len(Places) /\ n \in 1 .. Len(Places)
      BY <1>1, <1>3
  <2> QED
      BY <1>1, <1>7, <2>1, <2>2, FitsSame
<1>12. Len(q) # 0 => q[Len(q)] # 0
  <2>1. SUFFICES ASSUME Len(q) # 0 PROVE q[Len(q)] # 0
      OBVIOUS
  <2>2. Len(dealt) \in 1 .. Len(dealt) /\ dealt[Len(dealt)] # 0
      BY <1>1, <1>2, <2>1, ScalarSeq DEF IInv, DealtInv
  <2>3. dealt[Len(dealt)] \in Scalars \ {0}
      BY <1>2, <2>2, ScalarSeq
  <2>4. Times(Message, dealt[Len(dealt)]) \in Scalars \ {0}
      BY <1>3, <2>3, NoDivisorsOfZero
  <2> QED
      BY <1>1, <1>4, <2>2, <2>4
<1>13. h = q
  <2>1. /\ h \in Seq(Scalars) /\ (Len(h) # 0 => h[Len(h)] # 0)
        /\ \A k \in Nat : Coef(h)[k] = Coef(g)[k]
      BY <1>8, TrimIs
  <2> HIDE DEF h
  <2>2. \A k \in Nat : Coef(h)[k] = Coef(q)[k]
      BY <1>11, <2>1
  <2> QED
      BY <1>1, <1>12, <2>1, <2>2, SameCoefs
<1>14. CombineSigs(sigs) = Times(Message, PublicKey)
    BY <1>3, <1>5, <1>9, <1>10, <1>11 DEF PublicKey
<1> QED
    BY <1>13, <1>14 DEF h, g, q

\* The key of a holder accepts what the holder signs and nothing else.
LEMMA AcceptsSigned ==
    ASSUME NEW i \in Holders, NEW sig \in PartialSignature
    PROVE  PartialVerify(i, sig) <=> sig = Sign(i)
<1>1. PartialVerify(i, sig) <=> sig.idx = i /\ sig.data = Times(Message, Share(i))
    BY DEF PartialVerify, Verify
<1>2. sig = [idx |-> sig.idx, data |-> sig.data]
    BY DEF PartialSignature
<1> QED
    BY <1>1, <1>2 DEF Sign

\* A part is taken of a holder that has no key yet.
LEMMA InsertIInv ==
    ASSUME IInv, NEW i \in Holders, NEW sig \in PartialSignature, Insert(i, sig)
    PROVE  IInv'
<1>1. /\ i \notin keys /\ sig.idx = i
      /\ keys' = keys \cup {i} /\ sigs' = Append(sigs, sig)
      /\ threshold' = threshold /\ combined' = combined /\ dealt' = dealt
    BY DEF Insert, PartialVerify
<1>2. /\ sigs \in Seq(PartialSignature) /\ sigs' \in Seq(PartialSignature)
      /\ Len(sigs) \in Nat /\ DOMAIN sigs = 1 .. Len(sigs)
      /\ DOMAIN sigs' = 1 .. Len(sigs) + 1
    BY <1>1 DEF IInv, CollectedInv
<1>3. \A k \in DOMAIN sigs' :
          sigs'[k] = IF k \in DOMAIN sigs THEN sigs[k] ELSE sig
    BY <1>1, <1>2
<1>4. \A k \in DOMAIN sigs' : k \in DOMAIN sigs \/ k = Len(sigs) + 1
    BY <1>2
<1>5. CollectedInv'
  <2>1. \A k \in DOMAIN sigs' : sigs'[k].idx \in keys'
    BY <1>1, <1>3 DEF IInv, CollectedInv
  <2>2. \A k, l \in DOMAIN sigs' : sigs'[k].idx = sigs'[l].idx => k = l
    BY <1>1, <1>3, <1>4 DEF IInv, CollectedInv
  <2> QED
    BY <1>1, <1>2, <2>1, <2>2 DEF IInv, CollectedInv
<1>6. Signers(ToSet(sigs')) \subseteq Signers(ToSet(sigs)) \cup {i}
  <2>1. ToSet(sigs') \subseteq ToSet(sigs) \cup {sig}
    BY <1>3 DEF ToSet
  <2> QED
    BY <1>1, <2>1 DEF Signers
<1>7. CombinedInv'
  <2> SUFFICES ASSUME NEW c \in combined
               PROVE  /\ Signers(c.from) \subseteq keys'
                      /\ Cardinality(Signers(c.from)) >= threshold'
                      /\ Signers(c.from) \cap Signers(ToSet(sigs')) = {}
                      /\ \A d \in combined' \ {c} :
                            Signers(c.from) \cap Signers(d.from) = {}
    BY <1>1 DEF CombinedInv
  <2>1. Signers(c.from) \subseteq keys /\ Signers(c.from) \cap Signers(ToSet(sigs)) = {}
    BY DEF IInv, CombinedInv
  <2> QED
    BY <1>1, <1>6, <2>1 DEF IInv, CombinedInv
<1>8. SignedInv'
  <2>1. sig.data = Times(Message, Share(sig.idx))
    BY <1>1, AcceptsSigned DEF Insert, Sign
  <2>2. \A k \in DOMAIN sigs' : sigs'[k].data = Times(Message, Share(sigs'[k].idx))
    BY <1>3, <2>1 DEF IInv, SignedInv
  <2> QED
    BY <1>1, <2>2 DEF IInv, SignedInv, Share, PublicKey
<1> QED
    BY <1>1, <1>5, <1>7, <1>8 DEF IInv, DealtInv

\* What is combined is new: its signers are in no earlier combination.
LEMMA CombineIInv ==
    ASSUME IInv, Combine PROVE IInv'
<1> DEFINE new == [from |-> ToSet(sigs), sig |-> CombineSigs(sigs)]
<1> HIDE DEF new
<1>1. /\ Len(sigs) >= threshold /\ combined' = combined \cup {new}
      /\ sigs' = <<>> /\ UNCHANGED <<threshold, keys, dealt>>
    BY DEF Combine, new
<1>2. new.from = ToSet(sigs)
    BY DEF new
<1>3. CollectedInv'
    BY <1>1 DEF IInv, CollectedInv
<1>4. /\ Signers(new.from) \subseteq keys
      /\ Cardinality(Signers(new.from)) >= threshold
    BY <1>1, <1>2, OneEach DEF IInv, CollectedInv, Signers, ToSet
<1>5. Signers(ToSet(sigs')) = {}
    BY <1>1 DEF Signers, ToSet
<1>6. ASSUME NEW c \in combined PROVE Signers(c.from) \cap Signers(new.from) = {}
    BY <1>2 DEF IInv, CombinedInv
<1>7. CombinedInv'
  <2>1. ASSUME NEW c \in combined'
        PROVE  /\ Signers(c.from) \subseteq keys
               /\ Cardinality(Signers(c.from)) >= threshold
               /\ \A d \in combined' \ {c} : Signers(c.from) \cap Signers(d.from) = {}
    <3>1. CASE c = new
        BY <1>1, <1>4, <1>6, <3>1
    <3>2. CASE c \in combined
        BY <1>1, <1>6, <3>2 DEF IInv, CombinedInv
    <3> QED
        BY <1>1, <3>1, <3>2
  <2> QED
    BY <1>1, <1>5, <2>1 DEF CombinedInv
<1>8. SignedInv'
  <2>1. new.from \subseteq PartialSignature
    BY <1>2 DEF IInv, CollectedInv, ToSet
  <2>2. new.sig = Times(Message, PublicKey)
    BY <1>1, Interpolated DEF new
  <2>3. \A c \in combined' : c.from \subseteq PartialSignature /\ c.sig = Times(Message, PublicKey)
    BY <1>1, <2>1, <2>2 DEF IInv, SignedInv
  <2> QED
    BY <1>1, <2>3 DEF SignedInv, PublicKey, Share
<1> QED
    BY <1>1, <1>3, <1>7, <1>8 DEF IInv, DealtInv

\* What holds from the start on, whatever is offered and combined.
LEMMA Inductive == Spec => []IInv
<1>1. ASSUME IInv, [Next]_vars PROVE IInv'
  <2>1. CASE Next
    BY <1>1, <2>1, InsertIInv, CombineIInv DEF Next
  <2>2. CASE UNCHANGED vars
    BY <1>1, <2>2 DEF IInv, CollectedInv, CombinedInv, DealtInv, SignedInv, Share, PublicKey, vars
  <2> QED
    BY <1>1, <2>1, <2>2
<1> QED
    BY <1>1, InitIInv, PTL DEF Spec

-----------------------------------------------------------------------------
(* Theorems *)

\* The state is of its types, and the polynomial has no zero at its end: whatever sample
\* makes, and whatever insert and combine do.
THEOREM TypeCorrect == Spec => []TypeOK
<1>1. ASSUME IInv PROVE TypeOK
  <2>1. dealt # <<>> => Last(dealt) # 0
    <3>1. dealt \in Seq(Scalars)
        BY <1>1 DEF IInv, DealtInv
    <3>2. dealt # <<>> => Len(dealt) # 0 /\ Last(dealt) = dealt[Len(dealt)]
        BY <3>1 DEF Last
    <3> QED
        BY <1>1, <3>2 DEF IInv, DealtInv
  <2>2. Times(Message, PublicKey) \in Scalars
    <3>1. dealt \in Seq(Scalars) /\ 0 \in Scalars /\ Message \in Int
        BY <1>1, ScalarsAre, ThresholdSigAssumption DEF IInv, DealtInv
    <3>2. PublicKey \in Int
        BY <3>1, EvalIs, ScalarsAre DEF PublicKey
    <3> QED
        BY <3>1, <3>2, OperationsAre
  <2> QED
      BY <1>1, <2>1, <2>2 DEF IInv, DealtInv, CollectedInv, SignedInv, TypeOK
<1> QED
    BY <1>1, Inductive, PTL

\* No holder is counted twice, in one combination or in two, and none is made of fewer
\* parts than the threshold.
THEOREM CombinationsDisjointHolds == Spec => []CombinationsDisjoint
<1>1. IInv => CombinationsDisjoint
    BY DEF IInv, CombinedInv, CombinationsDisjoint, Signers
<1> QED
    BY <1>1, Inductive, PTL

\* What combine makes of the parts it took verifies under the public key.
THEOREM CombinedIsSignatureHolds == Spec => []CombinedIsSignature
<1>1. IInv => CombinedIsSignature
    BY DEF IInv, SignedInv, CombinedIsSignature, Verify
<1> QED
    BY <1>1, Inductive, PTL

\* Nothing collected is interpolated by nothing.
LEMMA NoneInterpolated ==
    ASSUME IInv, Len(sigs) = 0, NEW z \in Scalars
    PROVE  /\ InterpolateAt(Places, Values, z) = Eval(Interpolate(Places, Values), z)
           /\ LagrangeAt(Places, Values, z) = Eval(Interpolate(Places, Values), z)
<1> DEFINE e == <<>>
<1>1. Places \in Seq(Scalars) /\ Len(Places) = 0 /\ Values \in Seq(Scalars) /\ Len(Values) = 0
    BY PartsAre
<1>2. Places = e /\ Values = e
    BY <1>1
<1>3. Interpolate(Places, Values) = e /\ InterpolateAt(Places, Values, z) = 0 /\ Eval(e, z) = 0
    BY <1>2 DEF Interpolate, InterpolateAt, Eval
<1>4. LagrangeAt(Places, Values, z) = 0
  <2> DEFINE w == [i \in DOMAIN Places |-> Lagrange(Places, Places[i], z)]
             s == [i \in 1 .. 0 |-> Times(Values[i], w[i])]
  <2>1. LagrangeAt(Places, Values, z) = MultiExp(Values, w)
      BY DEF LagrangeAt
  <2>2. Len(w) = 0
      BY <1>1
  <2> HIDE DEF w
  <2>3. MultiExp(Values, w) = Total(s)
      BY <1>1, <2>2 DEF MultiExp
  <2>4. s \in Seq(Scalars) /\ Len(s) = 0
      BY <1>1
  <2> HIDE DEF s
  <2>5. e \in Seq(Scalars) /\ Len(e) = 0
      OBVIOUS
  <2> HIDE DEF e
  <2>6. \A i \in 1 .. Len(e) : Congruent(s[i], e[i] * PowersOf(z)[i - 1])
      BY <2>5
  <2>7. Total(s) = Eval(e, z)
      BY <2>4, <2>5, <2>6, TotalIs
  <2> QED
      BY <1>3, <2>1, <2>3, <2>7
<1> QED
    BY <1>3, <1>4

\* The three ways to interpolate agree on what was collected, and from threshold parts on
\* they find the polynomial times the message.
THEOREM InterpolationsAgreeHolds == Spec => []InterpolationsAgree
<1>1. ASSUME IInv PROVE InterpolationsAgree
  <2>1. ASSUME NEW z \in Scalars
        PROVE  /\ InterpolateAt(Places, Values, z) = Eval(Interpolate(Places, Values), z)
               /\ LagrangeAt(Places, Values, z) = Eval(Interpolate(Places, Values), z)
    <3>1. CASE Len(sigs) = 0
        BY <1>1, <3>1, NoneInterpolated
    <3>2. CASE Len(sigs) # 0
      <4>1. /\ Places \in Seq(Scalars) /\ Len(Places) = Len(sigs) /\ Apart(Places)
            /\ Values \in Seq(Scalars) /\ Len(Values) = Len(sigs)
          BY <1>1, PartsAre
      <4>2. ASSUME Places = <<>> PROVE FALSE
        <5>1. Len(Places) = Len(<<>>)
            BY <4>2
        <5>2. Len(<<>>) = 0
            OBVIOUS
        <5> QED
            BY <3>2, <4>1, <5>1, <5>2
      <4>3. Places # <<>> /\ Len(Values) = Len(Places)
          BY <4>1, <4>2
      <4> QED
          BY <4>1, <4>3, InterpolateAtIs, LagrangeAtIs
    <3> QED
        BY <3>1, <3>2
  <2>2. Len(sigs) >= threshold => Trim(Interpolate(Places, Values)) = Scaled(Message, dealt)
      BY <1>1, Interpolated
  <2> QED
      BY <2>1, <2>2 DEF InterpolationsAgree, Places, Values, Scaled
<1> QED
    BY <1>1, Inductive, PTL

\* What holds of the polynomial
LEMMA DealtIs ==
    ASSUME IInv
    PROVE  /\ dealt \in Seq(Scalars) /\ Len(dealt) \in Nat /\ Len(dealt) < UsizeSize /\ Len(dealt) <= Prime
           /\ threshold \in 1 .. N
<1>1. dealt \in Seq(Scalars) /\ Len(dealt) <= threshold /\ threshold \in Thresholds
    BY DEF IInv, DealtInv
<1>2. threshold \in 1 .. N /\ threshold <= N /\ threshold \in Nat /\ Len(dealt) \in Nat
    BY <1>1, ThresholdsAre, ScalarSeq
<1>3. N < UsizeSize /\ UsizeSize \in Nat /\ N < Prime /\ Prime \in Nat /\ N \in Nat
    BY HoldersAre, ThresholdSigAssumption, PolynomialAssumption
<1> QED
    BY <1>1, <1>2, <1>3

\* Fewer shares than the threshold fit every secret key.
THEOREM FewerTellNothingHolds == Spec => []FewerTellNothing
<1>1. ASSUME IInv PROVE FewerTellNothing
  <2>1. ASSUME NEW sk \in Scalars, NEW S \in SUBSET Holders, Cardinality(S) < threshold
        PROVE  \E other \in AllSharings :
                   /\ other.threshold = threshold /\ other.sk = sk
                   /\ \A i \in S : Eval(other.poly, i) = Share(i)
    <3>1. dealt \in Seq(Scalars) /\ threshold \in 1 .. N /\ threshold \in Thresholds
        BY <1>1, DealtIs DEF IInv, DealtInv
    <3>2. PICK g \in Sharings(sk, threshold) : \A i \in S : Eval(g, i) = Eval(dealt, i)
        BY <2>1, <3>1, FewerFit
    <3> DEFINE other == [threshold |-> threshold, sk |-> sk, poly |-> g]
    <3>3. other \in AllSharings
      <4> DEFINE Some == {[threshold |-> threshold, sk |-> sk, poly |-> f] : f \in Sharings(sk, threshold)}
      <4>1. other \in Some
          OBVIOUS
      <4>2. Some \in {{[threshold |-> t, sk |-> k, poly |-> f] : f \in Sharings(k, t)} :
                          t \in Thresholds, k \in Scalars}
          BY <3>1
      <4> HIDE DEF Some, other
      <4> QED
          BY <4>1, <4>2 DEF AllSharings
    <3>4. other.threshold = threshold /\ other.sk = sk /\ other.poly = g
        OBVIOUS
    <3> HIDE DEF other
    <3> QED
        BY <3>2, <3>3, <3>4 DEF Share
  <2> QED
      BY <2>1 DEF FewerTellNothing
<1> QED
    BY <1>1, Inductive, PTL

\* A KZG opening at a point verifies for the value there and no other.
THEOREM KzgBindsHolds == Spec => []KzgBinds
<1>1. ASSUME IInv PROVE KzgBinds
    BY <1>1, DealtIs, KzgOpeningBinds DEF KzgBinds
<1> QED
    BY <1>1, Inductive, PTL

\* So does an opening of a Feldman commitment.
THEOREM FeldmanBindsHolds == Spec => []FeldmanBinds
<1>1. ASSUME IInv PROVE FeldmanBinds
    BY <1>1, DealtIs, FeldmanOpeningBinds DEF FeldmanBinds
<1> QED
    BY <1>1, Inductive, PTL

\* An opening of a vector commitment verifies for the item at the index and no other.
THEOREM VectorBindsHolds == Spec => []VectorBinds
<1>1. ASSUME IInv PROVE VectorBinds
  <2>1. ASSUME NEW tau \in Scalars, NEW i \in DOMAIN dealt, KzgCommits(VectorPoly(dealt), tau),
               NEW v \in Scalars
        PROVE  VectorVerify(VectorCommit(dealt, tau), i - 1, v, VectorOpen(dealt, i - 1, tau), tau)
                   <=> v = dealt[i]
    <3> DEFINE f == VectorPoly(dealt)
    <3>1. /\ dealt \in Seq(Scalars) /\ Len(dealt) \in Nat /\ Len(dealt) < UsizeSize /\ Len(dealt) <= Prime
          /\ i \in 1 .. Len(dealt)
        BY <1>1, DealtIs
    <3>2. dealt # <<>>
        BY <3>1
    <3>3. /\ f \in Seq(Scalars) /\ Len(f) <= Len(dealt)
          /\ i - 1 \in Scalars /\ Eval(f, i - 1) = dealt[i]
        BY <3>1, <3>2, VectorPolyIs
    <3>4. KzgCommits(f, tau)
        BY <2>1
    <3> HIDE DEF f
    <3>5. Len(f) < UsizeSize
      <4>1. Len(f) \in Nat /\ UsizeSize \in Nat
          BY <3>3, ScalarSeq, PolynomialAssumption
      <4> QED
          BY <3>1, <3>3, <4>1
    <3>6. KzgVerify(KzgCommit(f, tau), i - 1, v, KzgOpen(f, i - 1, tau), tau) <=> v = Eval(f, i - 1)
        BY <3>3, <3>4, <3>5, KzgOpeningBinds
    <3> QED
        BY <3>3, <3>6 DEF VectorVerify, VectorCommit, VectorOpen, f
  <2> QED
      BY <2>1 DEF VectorBinds
<1> QED
    BY <1>1, Inductive, PTL

\* A proof of equal logarithms convinces exactly when made with the key, of what it says.
THEOREM DLEqBindsHolds == Spec => []DLEqBinds
<1>1. ASSUME IInv PROVE DLEqBinds
  <2>1. PublicKey \in Scalars /\ PublicKey = Eval(dealt, 0)
      BY <1>1, DealtIs, EvalIs, ScalarsAre DEF PublicKey
  <2> QED
      BY <2>1, DLEqConvinces DEF DLEqBinds
<1> QED
    BY <1>1, Inductive, PTL

\* The share of the hashes that make a coin true is the one asked for.
THEOREM CoinIsFairHolds == Spec => []CoinIsFair
<1>1. CoinIsFair
    BY CoinFair DEF CoinIsFair
<1> QED
    BY <1>1, PTL
=============================================================================
