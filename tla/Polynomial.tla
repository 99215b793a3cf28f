----------------------------- MODULE Polynomial -----------------------------
(***************************************************************************)
(* The polynomials of crypto_blstrs over the field of Prime elements:      *)
(* evaluation, interpolation, division, and the commitments built on them. *)
(*                                                                         *)
(* An element of a group is named by its logarithm, so that a scalar       *)
(* multiple is a product and a pairing equation an equation of products.   *)
(* A polynomial is the sequence of its coefficients, the constant first.   *)
(***************************************************************************)
EXTENDS Integers, FiniteSets, Sequences, SequencesExt

CONSTANTS
    Prime,      \* the order of the field
    UsizeSize   \* how many values a usize has, 2^64 in the code

ASSUME PolynomialAssumption ==
    /\ Prime \in Nat \ {0, 1}
    /\ \A a \in 2 .. Prime - 1 : Prime % a # 0
    /\ UsizeSize \in Nat \ {0}

Scalars == 0 .. Prime - 1

Plus(a, b)  == (a + b) % Prime
Minus(a, b) == (a - b) % Prime
Times(a, b) == (a * b) % Prime

\* Zero has no inverse: the code's unwrap() panics there.
Invert(a) == CHOOSE b \in Scalars : Times(a, b) = 1

Total(s) ==
    LET sum[n \in 0 .. Len(s)] == IF n = 0 THEN 0 ELSE Plus(sum[n - 1], s[n])
    IN  sum[Len(s)]

-----------------------------------------------------------------------------
(* Evaluation *)

TrimLast(coeffs) == IF coeffs # <<>> /\ Last(coeffs) = 0 THEN Front(coeffs) ELSE coeffs

\* BlstrsPolynomial::new drops the zeros at the end.
Trim(coeffs) ==
    SubSeq(coeffs, 1, CHOOSE n \in 0 .. Len(coeffs) :
        /\ n # 0 => coeffs[n] # 0
        /\ \A i \in n + 1 .. Len(coeffs) : coeffs[i] = 0)

\* The degree as a usize: that of zero wraps to the largest.
Degree(poly) == (Len(poly) - 1) % UsizeSize

\* Horner's rule, from the last coefficient down.
Eval(coeff, x) ==
    IF coeff = <<>> THEN 0
    ELSE LET b[i \in DOMAIN coeff] ==
                 IF i = Len(coeff) THEN Last(coeff) ELSE Plus(Times(b[i + 1], x), coeff[i])
         IN  b[1]

\* 1, x, x^2 and so on, len of them
Powers(x, len) ==
    LET power[i \in 1 .. len] == IF i = 1 THEN 1 ELSE Times(power[i - 1], x)
    IN  [i \in 1 .. len |-> power[i]]

\* The sum of the products of two sequences, as far as both go (zip, multi_exp)
MultiExp(s, t) ==
    Total([i \in 1 .. (IF Len(s) < Len(t) THEN Len(s) ELSE Len(t)) |-> Times(s[i], t[i])])

EvalPowersShifted(coeff, x) == Times(x, MultiExp(coeff, Powers(x, Len(coeff))))

\* The sum of the coefficients times the powers of x
EvalPowers(coeff, x) ==
    IF coeff = <<>> THEN 0 ELSE MultiExp(coeff, Powers(x, Len(coeff)))

PolyAdd(f, g) ==
    Trim([i \in 1 .. (IF Len(f) > Len(g) THEN Len(f) ELSE Len(g)) |->
            Plus(IF i <= Len(f) THEN f[i] ELSE 0, IF i <= Len(g) THEN g[i] ELSE 0)])

-----------------------------------------------------------------------------
(* Interpolation *)

\* The product of a polynomial and (x - X)
MulPoly(poly, x) ==
    [l \in 1 .. Len(poly) + 1 |->
        Minus(IF l <= Len(poly) THEN Times(poly[l], x) ELSE 0, IF l > 1 THEN poly[l - 1] ELSE 0)]

\* polys[i], which runs through the points i .. j - 1, is made to run through j.
\* (Concatenation makes TLC compute the sequence once.)
Join(xs, polys, i, j) ==
    [polys EXCEPT ![i] =
        LET up == MulPoly(polys[i], xs[j])
            down == MulPoly(polys[i + 1], xs[i])
        IN  [l \in 1 .. Len(up) |->
                Times(Minus(up[l], down[l]), Invert(Minus(xs[j], xs[i])))] \o <<>>]

\* The inner loop: those before j are made to run through j, the last of them first.
Column(xs, polys, j) ==
    LET inner[k \in 0 .. j - 1] == IF k = 0 THEN polys ELSE Join(xs, inner[k - 1], j - k, j)
    IN  inner[j - 1]

\* The polynomial through all the points
Interpolate(xs, ys) ==
    IF xs = <<>> THEN <<>>
    ELSE LET polys[j \in 1 .. Len(xs)] ==
                 IF j = 1 THEN [i \in DOMAIN ys |-> <<ys[i]>>] ELSE Column(xs, polys[j - 1], j)
         IN  polys[Len(xs)][1]

JoinAtFirst(xs, vals, x, i, j) ==
    [vals EXCEPT ![i] =
        Times(Minus(Times(vals[i], Minus(xs[j], x)), Times(vals[j], Minus(xs[i], x))),
              Invert(Minus(xs[j], xs[i])))]

\* Join, for the values at x
JoinAt(xs, vals, x, i, j) ==
    [vals EXCEPT ![i] =
        Times(Minus(Times(vals[i], Minus(xs[j], x)), Times(vals[i + 1], Minus(xs[i], x))),
              Invert(Minus(xs[j], xs[i])))]

ColumnAt(xs, vals, x, j) ==
    LET inner[k \in 0 .. j - 1] == IF k = 0 THEN vals ELSE JoinAt(xs, inner[k - 1], x, j - k, j)
    IN  inner[j - 1]

InterpolateAt(xs, ys, x) ==
    IF xs = <<>> THEN 0
    ELSE LET vals[j \in 1 .. Len(xs)] ==
                 IF j = 1 THEN ys ELSE ColumnAt(xs, vals[j - 1], x, j)
         IN  vals[Len(xs)][1]

\* The weight of the value at j for the value at x; points equal to j are passed over.
Lagrange(idxes, j, x) ==
    LET weight[n \in 0 .. Len(idxes)] ==
            IF n = 0 THEN 1
            ELSE IF idxes[n] = j THEN weight[n - 1]
            ELSE Times(weight[n - 1], Times(Minus(x, idxes[n]), Invert(Minus(j, idxes[n]))))
    IN  weight[Len(idxes)]

LagrangeAt(xs, ys, z) == MultiExp(ys, [i \in DOMAIN xs |-> Lagrange(xs, xs[i], z)])

\* The points a sample is drawn at: the fixed ones, and the first free ones
SamplePoints(degree, fixed) ==
    CHOOSE points \in SUBSET (0 .. degree \cup DOMAIN fixed) :
        /\ DOMAIN fixed \subseteq points
        /\ Cardinality(points) = degree + 1
        /\ \A x \in points \ DOMAIN fixed : 0 .. x \subseteq points

\* What BlstrsPolynomial::sample may return: the other values are random, and
\* the map of points and values is walked in any order.
Samples(degree, fixed) ==
    LET points == SamplePoints(degree, fixed)
        values == {value \in [points -> Scalars] : \A x \in DOMAIN fixed : value[x] = fixed[x]}
    IN  {Trim(Interpolate(order, [i \in DOMAIN order |-> value[order[i]]])) :
            order \in SetToSeqs(points), value \in values}

-----------------------------------------------------------------------------
(* Division *)

\* Is there something left to divide?
LeftToDivide(r, rhs) == Len(r) >= Len(rhs)

\* One round of the loop: the leading term of the remainder goes.
DivStep(st, rhs) ==
    IF ~LeftToDivide(st.r, rhs) THEN st
    ELSE LET shift == Len(st.r) - Len(rhs)
             factor == Times(Last(st.r), Invert(Last(rhs)))
         IN  [r |-> Trim([i \in DOMAIN st.r |->
                        IF i > shift THEN Minus(st.r[i], Times(factor, rhs[i - shift])) ELSE st.r[i]]),
              q |-> [k \in DOMAIN st.q |-> IF k = shift + 1 THEN factor ELSE st.q[k]]]

\* The quotient, for rhs other than zero. Each round shortens the remainder,
\* so that there are at most as many as f has coefficients.
Div(f, rhs) ==
    IF Len(f) < Len(rhs) THEN <<>>
    ELSE LET st[n \in 0 .. Len(f)] ==
                 IF n = 0 THEN [r |-> f, q |-> [i \in 1 .. Len(f) - Len(rhs) + 1 |-> 0]]
                 ELSE DivStep(st[n - 1], rhs)
         IN  Trim(st[Len(f)].q)
=============================================================================
