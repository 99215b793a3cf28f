---------------------------- MODULE ThresholdSig ----------------------------
(***************************************************************************)
(* Threshold signatures of crypto_blstrs: a key is shared, holders of the  *)
(* shares sign one message, and a SignatureSet collects what verifies and  *)
(* combines it.  The polynomial of the key can be committed to in three    *)
(* ways, which are checked on the same polynomials.                        *)
(***************************************************************************)
EXTENDS Polynomial

CONSTANTS
    N,              \* the number of shares
    Thresholds,     \* the thresholds a key may be shared with
    MaxDegree,      \* of the polynomials that can be committed to
    Message         \* the message, hashed to the curve

ASSUME ThresholdSigAssumption ==
    /\ N \in 1 .. Prime - 1 /\ N < UsizeSize
    /\ Thresholds \subseteq 1 .. N
    /\ MaxDegree \in Nat /\ MaxDegree < UsizeSize - 1
    /\ Message \in Scalars \ {0}
    /\ \A k \in 0 .. UsizeSize : 2^k <= UsizeSize => UsizeSize % (2^k) = 0

VARIABLES
    threshold,
    dealt,           \* what the dealer sampled
    keys,           \* SignatureSet.keys, a key by its index
    sigs,           \* SignatureSet.sigs
    combined        \* the signatures made, with what each was made from

vars == <<threshold, dealt, keys, sigs, combined>>

Holders == 1 .. N
PartialSignature == [idx : Holders, data : Scalars]

-----------------------------------------------------------------------------
(* Keys and signatures *)

Share(i) == Eval(dealt, i)
PublicKey == Eval(dealt, 0)

\* sign: the hash of the message times the secret key
Sign(i) == [idx |-> i, data |-> Times(Message, Share(i))]

\* The pairing equation of a public key and a signature
Verify(pk, sig) == sig = Times(Message, pk)

PartialVerifyData(i, sig) == Verify(Share(i), sig.data)

PartialVerify(i, sig) == sig.idx = i /\ Verify(Share(i), sig.data)

SharingsShort(sk, t) == Samples(IF t > 1 THEN t - 2 ELSE 0, [x \in {0} |-> sk])

\* The polynomials BlstrsSecretKey::share may sample
Sharings(sk, t) == Samples(t - 1, [x \in {0} |-> sk])

AllSharings ==
    UNION {{[threshold |-> t, sk |-> sk, poly |-> f] : f \in Sharings(sk, t)} :
        t \in Thresholds, sk \in Scalars}

\* BlstrsSignature::combine
CombineSigs(from) ==
    LagrangeAt([i \in DOMAIN from |-> from[i].idx], [i \in DOMAIN from |-> from[i].data], 0)

\* A coin is drawn from the hash of a signature, read as a usize; the interval must
\* be a power of two for rand_range.
RandRangeMasked(hash, min, max) ==
    min + (IF (hash \div (max - min)) % 2 = 1 THEN max - min ELSE 0)

RandRange(hash, min, max) == min + (hash % (max - min))
RangeAllowed(min, max) == min <= max /\ \E k \in 0 .. UsizeSize : 2^k = max - min
RandCoin(hash, num, denom) == RandRange(hash, 0, denom) < num

-----------------------------------------------------------------------------
(* The signature set *)

Init ==
    /\ \E sharing \in AllSharings : threshold = sharing.threshold /\ dealt = sharing.poly
    /\ keys = {}
    /\ sigs = <<>>
    /\ combined = {}

Insert(i, sig) ==
    /\ i \notin keys
    /\ PartialVerify(i, sig)
    /\ keys' = keys \cup {i}
    /\ sigs' = Append(sigs, sig)
    /\ UNCHANGED <<threshold, dealt, combined>>

CombineAfresh ==
    /\ Len(sigs) >= threshold
    /\ combined' = combined \cup {[from |-> ToSet(sigs), sig |-> CombineSigs(sigs)]}
    /\ keys' = {}
    /\ sigs' = <<>>
    /\ UNCHANGED <<threshold, dealt>>

\* The keys stay: who signed once is not asked again.
Combine ==
    /\ Len(sigs) >= threshold
    /\ combined' = combined \cup {[from |-> ToSet(sigs), sig |-> CombineSigs(sigs)]}
    /\ sigs' = <<>>
    /\ UNCHANGED <<threshold, dealt, keys>>

Next ==
    \/ \E i \in Holders, sig \in PartialSignature : Insert(i, sig)
    \/ Combine

Spec == Init /\ [][Next]_vars

-----------------------------------------------------------------------------
(* Commitments *)

\* KZG: the polynomial at tau, from the powers of tau, which the setup draws
KzgNew(tau) == Powers(tau, MaxDegree + 1)
KzgCommits(f, tau) == (Degree(f) + 1) % UsizeSize <= Len(KzgNew(tau))
KzgCommit(f, tau) == MultiExp(KzgNew(tau), f)

KzgOpenBare(f, x, tau) == KzgCommit(Div(f, <<x, 1>>), tau)

\* The witness for the value of f at x: (f - f(x)) / (X - x)
KzgOpen(f, x, tau) ==
    KzgCommit(Div(PolyAdd(f, Trim(<<Minus(0, Eval(f, x))>>)), <<Minus(0, x), 1>>), tau)

KzgVerify(commitment, x, value, witness, tau) ==
    Minus(commitment, value) = Times(witness, Minus(tau, x))

\* Feldman: the coefficients themselves; the opening has no witness.
FeldmanCommits(f) == Degree(f) <= MaxDegree
FeldmanOpen(f, x) == Eval(f, x)

FeldmanVerify(commitment, x, value) == value = EvalPowers(commitment, x)

\* A vector is the polynomial through its items at 0, 1, 2 and so on.
VectorPolyFromOne(vec) == Trim(Interpolate([i \in DOMAIN vec |-> i], vec))

VectorPoly(vec) == Trim(Interpolate([i \in DOMAIN vec |-> i - 1], vec))
VectorCommit(vec, tau) == KzgCommit(VectorPoly(vec), tau)
VectorOpen(vec, index, tau) == KzgOpen(VectorPoly(vec), index, tau)
VectorVerify(commitment, index, item, witness, tau) ==
    KzgVerify(commitment, index, item, witness, tau)

\* BlstrsDLEq: a proof that x and y are g and h times one scalar. The challenge is
\* a hash of a and b (fiat_shamir), which fixes it only after them.
DLEqProvePlus(g, h, witness, r, c) ==
    [a |-> Times(g, r), b |-> Times(h, r), z |-> Plus(r, Times(witness, c))]

DLEqProve(g, h, witness, r, c) ==
    [a |-> Times(g, r), b |-> Times(h, r), z |-> Minus(r, Times(witness, c))]

DLEqVerify(g, h, x, y, proof, c) ==
    /\ proof.a = Plus(Times(g, proof.z), Times(x, c))
    /\ proof.b = Plus(Times(h, proof.z), Times(y, c))

-----------------------------------------------------------------------------
(* Properties *)

\* The state is of its types, and a sampled polynomial has no zero at its end.
TypeOK ==
    /\ threshold \in Thresholds
    /\ dealt \in Seq(Scalars) /\ Len(dealt) <= threshold
    /\ dealt # <<>> => Last(dealt) # 0
    /\ keys \subseteq Holders
    /\ sigs \in Seq(PartialSignature)
    /\ \A c \in combined : c.from \subseteq PartialSignature /\ c.sig \in Scalars

\* Whatever was offered to the set, in whatever order, a combination verifies
\* under the public key (threshold_sig.rs:219, crypto/threshold_sig.rs:110).
CombinedIsSignature == \A c \in combined : Verify(PublicKey, c.sig)

\* No holder is counted twice: a combination has the parts of threshold holders
\* or more, none of whom is in another one or among the parts still collected.
CombinationsDisjoint ==
    LET signers(S) == {s.idx : s \in S}
    IN  \A c \in combined :
            /\ Cardinality(signers(c.from)) >= threshold
            /\ signers(c.from) \cap signers(ToSet(sigs)) = {}
            /\ \A d \in combined \ {c} : signers(c.from) \cap signers(d.from) = {}

\* The three ways to interpolate (crypto/mod.rs:82, 120, lib.rs:70) agree on
\* the parts collected, in any order; from threshold parts on, what they find is
\* the shared polynomial times the message.
InterpolationsAgree ==
    LET xs == [i \in DOMAIN sigs |-> sigs[i].idx]
        ys == [i \in DOMAIN sigs |-> sigs[i].data]
        found == Interpolate(xs, ys)
    IN  /\ \A z \in Scalars : /\ InterpolateAt(xs, ys, z) = Eval(found, z)
                              /\ LagrangeAt(xs, ys, z) = Eval(found, z)
        /\ Len(sigs) >= threshold => Trim(found) = [i \in DOMAIN dealt |-> Times(Message, dealt[i])]

\* A key that was shared and not yet used
JustShared == keys = {}

\* "outputs [true] with probability [p_true_num]/[p_true_denom]"
\* (crypto/threshold_sig.rs:155): of all hashes this share makes the coin true.
CoinIsFair ==
    JustShared =>
        \A denom \in 1 .. UsizeSize, num \in 0 .. UsizeSize :
            RangeAllowed(0, denom) /\ num <= denom =>
                LET heads == {hash \in 0 .. UsizeSize - 1 : RandCoin(hash, num, denom)}
                IN  Cardinality(heads) * denom = num * UsizeSize

\* Fewer shares than the threshold fit every secret key ("[threshold] shares are
\* required", crypto/threshold_sig.rs:64).
FewerTellNothing ==
    JustShared =>
        \A sk \in Scalars, S \in SUBSET Holders : Cardinality(S) < threshold =>
            \E other \in AllSharings :
                /\ other.threshold = threshold /\ other.sk = sk
                /\ \A i \in S : Eval(other.poly, i) = Share(i)

\* A KZG opening (kzg.rs:40) verifies for the value at the point and no other.
KzgBinds ==
    JustShared =>
        \A tau, x \in Scalars : KzgCommits(dealt, tau) =>
            LET witness == KzgOpen(dealt, x, tau)
                commitment == KzgCommit(dealt, tau)
            IN  \A v \in Scalars : KzgVerify(commitment, x, v, witness, tau) <=> v = Eval(dealt, x)

\* So does a Feldman commitment (feldman.rs:54), whose check adds up the powers itself.
FeldmanBinds ==
    JustShared /\ FeldmanCommits(dealt) =>
        \A x, v \in Scalars : FeldmanVerify(dealt, x, v) <=> v = FeldmanOpen(dealt, x)

\* A proof (dleq.rs:22) that some element is h times the secret key convinces
\* exactly when it was made with the key and the element is that; another witness or
\* another element does not (dleq.rs:82, 85). The challenge is not zero.
DLEqBinds ==
    JustShared =>
        \A h, c \in Scalars \ {0}, r, witness, y \in Scalars :
            DLEqVerify(1, h, PublicKey, y, DLEqProve(1, h, witness, r, c), c)
                <=> witness = Eval(dealt, 0) /\ y = Times(h, witness)

\* A vector commitment (vector_commit.rs:42) opens at an index to the item there.
\* The vectors are the coefficients of the polynomials.
VectorBinds ==
    JustShared =>
        \A tau \in Scalars, i \in DOMAIN dealt : KzgCommits(VectorPoly(dealt), tau) =>
            LET witness == VectorOpen(dealt, i - 1, tau)
                commitment == VectorCommit(dealt, tau)
            IN  \A v \in Scalars : VectorVerify(commitment, i - 1, v, witness, tau) <=> v = dealt[i]
=============================================================================
