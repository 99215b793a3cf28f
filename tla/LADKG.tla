------------------------------- MODULE LADKG -------------------------------
(***************************************************************************)
(* The distributed key generation at every node (ladkg, node/context.rs):  *)
(* verifiable secret sharing (private and public shares, signed replies, a *)
(* transcript with a certificate and supplementary shares), then, on the   *)
(* common subset ACS outputs, the secret key, and the public key rebuilt   *)
(* from n - f key shares.                                                  *)
(*                                                                         *)
(* Shares, signatures and keys are named by the nodes they come from: a    *)
(* key is the set of dealers summed into it.  A share of BadShares does    *)
(* not verify.  A transcript is its certificate (the nodes whose signature *)
(* it carries) and the nodes it has supplementary shares for.              *)
(*                                                                         *)
(* The run loop handles one event at a time, so a handler is one step, but *)
(* handle_acs_result waits for the coin inside its step and holds the loop *)
(* up.  The task that makes a transcript runs beside the loop, and reads   *)
(* the certificate and publishes in two steps.  Links are reliable; a      *)
(* crash loses any part of what was not sent.                              *)
(***************************************************************************)
EXTENDS Integers, FiniteSets

CONSTANTS
    Node,          \* node ids, ordered as in the code
    NumFaults,     \* num_faults
    Dealers,       \* the nodes whose StartVSS arrives
    Again,         \* those of them it may reach again
    BadShares,     \* pairs <<dealer, node>> whose private share does not verify
    BadPublic,     \* dealers whose public share does not verify
    Instant,       \* trans_waiting_time = 0?
    MaxCrashes     \* how many nodes may stop

ASSUME LADKGAssumption ==
    /\ Node \subseteq Nat /\ IsFiniteSet(Node)
    /\ NumFaults \in Nat /\ NumFaults < Cardinality(Node)
    /\ Dealers \subseteq Node /\ Again \subseteq Dealers
    /\ BadShares \subseteq Dealers \X Node /\ BadPublic \subseteq Dealers \ Again
    /\ Instant \in BOOLEAN /\ MaxCrashes \in Nat

VARIABLES
    shared,               \* nodes that ran sharing_phase
    reshared,             \* nodes whose store is of a later sharing than what they
                          \* said of the first
    pub_shares,           \* pub_shares[p]: dealers whose public share p holds
    unvalidated_shares,   \* private shares that came before their public share
    validated_my_share,   \* validated_my_share[p]: dealers whose share p holds
    certificate,          \* certificate[p]: nodes that signed p's public share
    counting_down,        \* nodes that reached 2f + 1 signatures
    sleeping,             \* nodes whose task that makes the transcript waits
    snapshot,             \* snapshot[p]: the certificate that task read, {} before
    transcripts,          \* transcripts[p]: certificate of p's transcript, {} before
    supple_shares,        \* supple_shares[p]: nodes it has supplementary shares for
    unfit,                \* nodes whose supplementary shares are of a later sharing
                          \* than their public share
    acs,                  \* what ACS outputs, {} while unknown
    decided_trans,        \* decided_trans[p]: the dealers p summed, {} before
    awaiting_coin,        \* nodes inside handle_acs_result, waiting for coin 20
    th_pk_shares,         \* th_pk_shares[p]: nodes whose public key share p holds
    th_pk,                \* th_pk[p]: the key p rebuilt, {} before
    panicked,             \* nodes whose task died on an unwrap or a panic
    privMsgs, pubMsgs, replyMsgs, pkMsgs,    \* in flight, as <<from, to>>
    crashed               \* nodes that stopped

shareVars == <<shared, reshared, pub_shares, unvalidated_shares, validated_my_share>>
transVars == <<certificate, counting_down, sleeping, snapshot, transcripts,
               supple_shares, unfit>>
keyVars   == <<acs, decided_trans, awaiting_coin, th_pk_shares, th_pk>>
netVars   == <<privMsgs, pubMsgs, replyMsgs, pkMsgs>>
vars      == <<shareVars, transVars, keyVars, panicked, netVars, crashed>>

CertQuorum == 2 * NumFaults + 1
KeyQuorum  == Cardinality(Node) - NumFaults

Init ==
    /\ shared = {} /\ reshared = {} /\ unfit = {}
    /\ pub_shares = [p \in Node |-> {}]
    /\ unvalidated_shares = [p \in Node |-> {}]
    /\ validated_my_share = [p \in Node |-> {}]
    /\ certificate = [p \in Node |-> {}]
    /\ counting_down = {} /\ sleeping = {}
    /\ snapshot = [p \in Node |-> {}]
    /\ transcripts = [p \in Node |-> {}]
    /\ supple_shares = [p \in Node |-> {}]
    /\ acs = {}
    /\ decided_trans = [p \in Node |-> {}]
    /\ awaiting_coin = {}
    /\ th_pk_shares = [p \in Node |-> {}]
    /\ th_pk = [p \in Node |-> {}]
    /\ panicked = {}
    /\ privMsgs = {} /\ pubMsgs = {} /\ replyMsgs = {} /\ pkMsgs = {}
    /\ crashed = {}

\* p's run loop takes events.
Running(p) == p \notin crashed \union panicked \union awaiting_coin

\* What p sends to everyone (to itself too), and to one node.
Broadcast(p)  == {p} \X Node
P2pSend(p, q) == {<<p, q>>}

-----------------------------------------------------------------------------
(* Verifiable secret sharing.                                              *)

\* StartVSS: sharing_phase.
SharingPhase(p) ==
    /\ Running(p) /\ p \in Dealers \ shared
    /\ shared' = shared \union {p}
    /\ privMsgs' = privMsgs \union UNION {P2pSend(p, q) : q \in Node}
    /\ pubMsgs' = pubMsgs \union Broadcast(p)
    /\ pub_shares' = [pub_shares EXCEPT ![p] = @ \union {p}]
    /\ UNCHANGED <<reshared, unvalidated_shares, validated_my_share, transVars, keyVars,
                   panicked, replyMsgs, pkMsgs, crashed>>

\* A later StartVSS: sharing_phase deals new shares and replaces the store, while
\* p's own public share stays (`or_insert`).  What it sends comes behind the first
\* sharing on every link and goes nowhere: receivers keep the public share they have,
\* which the new private shares do not fit.
SharingAgain(p) ==
    /\ Running(p) /\ p \in Again \intersect shared
    /\ reshared' = reshared \union {p}
    /\ UNCHANGED <<shared, pub_shares, unvalidated_shares, validated_my_share,
                   transVars, keyVars, panicked, netVars, crashed>>

\* verify_my_share: a valid share is kept and the dealer gets a signed reply.
VerifyMyShareUnkept(p, d) ==
    /\ UNCHANGED validated_my_share
    /\ replyMsgs' = IF <<d, p>> \in BadShares THEN replyMsgs
                    ELSE replyMsgs \union P2pSend(p, d)
VerifyMyShare(p, d) ==
    IF <<d, p>> \in BadShares
    THEN UNCHANGED <<validated_my_share, replyMsgs>>
    ELSE /\ validated_my_share' = [validated_my_share EXCEPT ![p] = @ \union {d}]
         /\ replyMsgs' = replyMsgs \union P2pSend(p, d)

\* VSSPrivateShare: kept aside until the public share is there to check it with.
ReceivePrivateShare(d, p) ==
    /\ Running(p) /\ <<d, p>> \in privMsgs
    /\ privMsgs' = privMsgs \ {<<d, p>>}
    /\ IF d \in pub_shares[p]
       THEN VerifyMyShare(p, d) /\ UNCHANGED unvalidated_shares
       ELSE /\ unvalidated_shares' = [unvalidated_shares EXCEPT ![p] = @ \union {d}]
            /\ UNCHANGED <<validated_my_share, replyMsgs>>
    /\ UNCHANGED <<shared, reshared, pub_shares, transVars, keyVars, panicked, pubMsgs,
                   pkMsgs, crashed>>

\* The private share that waited for d's public share is there.
WaitingForgotten(p, d) == FALSE
Waiting(p, d) == d \in unvalidated_shares[p]

\* verify_pub_share: the norm of what the shares reconstruct is within its bound.
VerifyPubShare(d) == d \notin BadPublic

\* VSSPublicShare: dropped if it does not verify; otherwise the private share that
\* waited for it, if any, is checked.
ReceivePublicShare(d, p) ==
    /\ Running(p) /\ <<d, p>> \in pubMsgs
    /\ pubMsgs' = pubMsgs \ {<<d, p>>}
    /\ pub_shares' = IF VerifyPubShare(d) THEN [pub_shares EXCEPT ![p] = @ \union {d}]
                                          ELSE pub_shares
    /\ IF Waiting(p, d) /\ VerifyPubShare(d)
       THEN /\ unvalidated_shares' = [unvalidated_shares EXCEPT ![p] = @ \ {d}]
            /\ VerifyMyShare(p, d)
       ELSE UNCHANGED <<unvalidated_shares, validated_my_share, replyMsgs>>
    /\ UNCHANGED <<shared, reshared, transVars, keyVars, panicked, privMsgs, pkMsgs,
                   crashed>>

\* The 2f + 1-th signature starts the making of the transcript.
ReadyAgain(p, cert) == Cardinality(cert) >= CertQuorum
Ready(p, cert) == Cardinality(cert) >= CertQuorum /\ p \notin counting_down

\* The transcript with certificate `cert` is made and goes to ACS, with
\* supplementary shares for the nodes that did not sign (find_missing_replicas).
Missing(cert) == Node \ cert

Publish(p, cert) ==
    /\ transcripts' = [transcripts EXCEPT ![p] = cert]
    /\ supple_shares' = [supple_shares EXCEPT ![p] = Missing(cert)]

\* The store the transcript is made of is read when its making starts.
TakeStore(p) == unfit' = IF p \in reshared THEN unfit \union {p} ELSE unfit

\* VSSReply: signatures are collected until the transcript exists; 2f + 1 of them
\* make it at once, or spawn the task that makes it later.
ReceiveReply(q, p) ==
    /\ Running(p) /\ <<q, p>> \in replyMsgs
    /\ replyMsgs' = replyMsgs \ {<<q, p>>}
    /\ IF transcripts[p] # {}
       THEN UNCHANGED <<transVars, panicked>>
       ELSE IF p \notin pub_shares[p]      \* pub_shares.get(&myid).unwrap()
       THEN panicked' = panicked \union {p} /\ UNCHANGED transVars
       ELSE LET cert  == certificate[p] \union {q}
                ready == Ready(p, cert)
            IN  /\ certificate' = [certificate EXCEPT ![p] = cert]
                /\ counting_down' = IF ready THEN counting_down \union {p}
                                             ELSE counting_down
                /\ sleeping' = IF ready /\ ~Instant THEN sleeping \union {p} ELSE sleeping
                /\ IF ready /\ Instant THEN Publish(p, cert)
                                       ELSE UNCHANGED <<transcripts, supple_shares>>
                /\ IF ready THEN TakeStore(p) ELSE UNCHANGED unfit
                /\ UNCHANGED <<snapshot, panicked>>
    /\ UNCHANGED <<shareVars, keyVars, privMsgs, pubMsgs, pkMsgs, crashed>>

\* gen_transcript: the spawned task wakes up and reads the certificate ...
ReadCertificate(p) ==
    /\ p \in sleeping \ crashed
    /\ sleeping' = sleeping \ {p}
    /\ snapshot' = [snapshot EXCEPT ![p] = certificate[p]]
    /\ UNCHANGED <<shareVars, certificate, counting_down, transcripts, supple_shares,
                   unfit, keyVars, panicked, netVars, crashed>>

\* ... and, when it is done with the shares, publishes: replies may come between.
PublishTranscript(p) ==
    /\ p \notin crashed /\ snapshot[p] # {}
    /\ snapshot' = [snapshot EXCEPT ![p] = {}]
    /\ Publish(p, snapshot[p])
    /\ UNCHANGED <<shareVars, certificate, counting_down, sleeping, unfit, keyVars,
                   panicked, netVars, crashed>>
-----------------------------------------------------------------------------
(* Key generation.                                                         *)

\* Transcript::verify, as far as honest nodes can fail it: certificate and
\* supplementary shares are for each node exactly once, and every supplementary share
\* fits the public share.
Verifies(d) ==
    /\ transcripts[d] \cap supple_shares[d] = {}
    /\ transcripts[d] \union supple_shares[d] = Node
    /\ d \in unfit => supple_shares[d] = {}

\* sort_transcripts: longer certificates first, then smaller ids.
SortsBeforeUntied(a, b) ==
    Cardinality(transcripts[a]) > Cardinality(transcripts[b])
SortsBefore(a, b) ==
    \/ Cardinality(transcripts[a]) > Cardinality(transcripts[b])
    \/ Cardinality(transcripts[a]) = Cardinality(transcripts[b]) /\ a < b

\* The first f + 1 of the sorted transcripts that verify.
Decide(S) ==
    LET valid == {d \in S : Verifies(d)}
    IN  {d \in valid : Cardinality({e \in valid : SortsBefore(e, d)}) <= NumFaults}

\* What AACS hands over: one set of n - f or more transcripts, the same at all nodes.
AcsOutput(S) ==
    IF acs # {} THEN S = acs
    ELSE /\ S \subseteq {d \in Node : transcripts[d] # {}}
         /\ Cardinality(S) >= KeyQuorum

\* sum_secret_key needs a dealer to sum, and the share of every dealer it sums.
HasShares(dec, held) == dec # {} /\ dec \subseteq held

\* handle_acs_result up to the wait for the coin.  A decided transcript whose share
\* p did not validate must carry one for it: `.unwrap()` dies otherwise.
HandleAcsResult(p) ==
    /\ Running(p) /\ decided_trans[p] = {}
    /\ \E S \in SUBSET Node :
          /\ S # {} /\ AcsOutput(S)
          /\ acs' = S
          /\ LET dec  == Decide(S)
                 held == validated_my_share[p] \union {d \in dec : p \in supple_shares[d]}
             IN  IF HasShares(dec, held)
                 THEN /\ validated_my_share' = [validated_my_share EXCEPT ![p] = held]
                      /\ decided_trans' = [decided_trans EXCEPT ![p] = dec]
                      /\ awaiting_coin' = awaiting_coin \union {p}
                      /\ UNCHANGED panicked
                 ELSE /\ panicked' = panicked \union {p}
                      /\ UNCHANGED <<validated_my_share, decided_trans, awaiting_coin>>
    /\ UNCHANGED <<shared, reshared, pub_shares, unvalidated_shares, transVars,
                   th_pk_shares, th_pk, netVars, crashed>>

\* handle_acs_result goes on with coin 20: p's public key share is noted, without
\* looking at the threshold, and sent to everyone.
CoinArrives(p) ==
    /\ p \in awaiting_coin \ crashed
    /\ awaiting_coin' = awaiting_coin \ {p}
    /\ th_pk_shares' = [th_pk_shares EXCEPT ![p] = @ \union {p}]
    /\ pkMsgs' = pkMsgs \union Broadcast(p)
    /\ UNCHANGED <<shareVars, transVars, acs, decided_trans, th_pk, panicked,
                   privMsgs, pubMsgs, replyMsgs, crashed>>

\* shamir_reconstruct_r gives a key only if the shares lie on one polynomial.
Reconstruct(S) ==
    IF \E k \in SUBSET Node : \A q \in S : decided_trans[q] = k
    THEN decided_trans[CHOOSE q \in S : TRUE] ELSE {}

\* There are shares enough to rebuild the public key.
EnoughEarly(shares) == Cardinality(shares) > NumFaults
EnoughLate(shares) == Cardinality(shares) > KeyQuorum
Enough(shares) == Cardinality(shares) >= KeyQuorum

\* DKGPubKey.
ReceivePubKey(q, p) ==
    /\ Running(p) /\ <<q, p>> \in pkMsgs
    /\ pkMsgs' = pkMsgs \ {<<q, p>>}
    /\ IF th_pk[p] # {}
       THEN UNCHANGED <<th_pk_shares, th_pk>>
       ELSE LET shares == th_pk_shares[p] \union {q}
            IN  /\ th_pk_shares' = [th_pk_shares EXCEPT ![p] = shares]
                /\ th_pk' = IF Enough(shares)
                            THEN [th_pk EXCEPT ![p] = Reconstruct(shares)] ELSE th_pk
    /\ UNCHANGED <<shareVars, transVars, acs, decided_trans, awaiting_coin, panicked,
                   privMsgs, pubMsgs, replyMsgs, crashed>>
-----------------------------------------------------------------------------
Lost(msgs, p) == {msgs \ S : S \in SUBSET {m \in msgs : m[1] = p}}

\* A node stops; any part of what it still had to send is lost.
Crash(p) ==
    /\ p \notin crashed /\ Cardinality(crashed) < MaxCrashes
    /\ crashed' = crashed \union {p}
    /\ privMsgs' \in Lost(privMsgs, p) /\ pubMsgs' \in Lost(pubMsgs, p)
    /\ replyMsgs' \in Lost(replyMsgs, p) /\ pkMsgs' \in Lost(pkMsgs, p)
    /\ UNCHANGED <<shareVars, transVars, keyVars, panicked>>

Step(p) ==
    \/ SharingPhase(p) \/ SharingAgain(p) \/ ReadCertificate(p) \/ PublishTranscript(p)
    \/ HandleAcsResult(p) \/ CoinArrives(p)
    \/ \E q \in Node : \/ ReceivePrivateShare(q, p) \/ ReceivePublicShare(q, p)
                       \/ ReceiveReply(q, p) \/ ReceivePubKey(q, p)

Next == \E p \in Node : Step(p) \/ Crash(p)

Spec == Init /\ [][Next]_vars
-----------------------------------------------------------------------------
(* Properties.                                                             *)

\* Type invariant; a private share waits only while its public share is missing.
TypeOK ==
    /\ shared \subseteq Dealers /\ reshared \subseteq Again /\ unfit \subseteq reshared
    /\ pub_shares \in [Node -> SUBSET Node]
    /\ unvalidated_shares \in [Node -> SUBSET Node]
    /\ \A p \in Node : unvalidated_shares[p] \cap pub_shares[p] = {}
    /\ validated_my_share \in [Node -> SUBSET Node]
    /\ certificate \in [Node -> SUBSET Node]
    /\ counting_down \subseteq Node /\ sleeping \subseteq Node
    /\ snapshot \in [Node -> SUBSET Node]
    /\ transcripts \in [Node -> SUBSET Node]
    /\ supple_shares \in [Node -> SUBSET Node]
    /\ acs \subseteq Node
    /\ decided_trans \in [Node -> SUBSET Node]
    /\ awaiting_coin \subseteq Node
    /\ th_pk_shares \in [Node -> SUBSET Node]
    /\ th_pk \in [Node -> SUBSET Node]
    /\ panicked \subseteq Node
    /\ privMsgs \subseteq Node \X Node /\ pubMsgs \subseteq Node \X Node
    /\ replyMsgs \subseteq Node \X Node /\ pkMsgs \subseteq Node \X Node
    /\ crashed \subseteq Node

\* No task dies: a node that needs a share of a decided dealer has validated it
\* itself or finds one for it in the transcript, whatever of the sharing it has
\* seen when ACS ends (handle_acs_result, `.unwrap()` and "this should not happen").
NoPanic == panicked = {}

\* A signature in a transcript stands for a share its signer holds, so that the
\* supplementary shares make up for exactly the nodes without one.
SignersHoldShares ==
    \A d \in Node : \A p \in transcripts[d] : d \in validated_my_share[p]

\* A transcript can be opened without its dealer: as long as at most f nodes stop,
\* f + 1 of the others hold a share of it they checked.
TranscriptsAreBacked ==
    \A d \in Node : (transcripts[d] # {} /\ Cardinality(crashed) <= NumFaults) =>
        Cardinality({p \in Node \ crashed : d \in validated_my_share[p]}) > NumFaults

\* All nodes sum the shares of the same dealers, so that their secret keys are shares
\* of one key, whenever each of them gets to handle what ACS output.
SecretKeyAgreement ==
    \A p \in Node, q \in Node :
        (decided_trans[p] # {} /\ decided_trans[q] # {}) =>
            decided_trans[p] = decided_trans[q]

\* A key sums exactly f + 1 dealers, so that one of them at least is not faulty: the
\* sort leaves no ties, and ACS outputs transcripts enough that verify.
OneDealerIsHonest ==
    \A p \in Node : decided_trans[p] # {} =>
        Cardinality(decided_trans[p]) = NumFaults + 1

\* A public key is the one of the secret key shares: a node that has rebuilt one has
\* it from n - f nodes that have formed their secret key, for that key.
PublicKeyMatches ==
    \A p \in Node : th_pk[p] # {} =>
        /\ Cardinality({q \in Node : decided_trans[q] = th_pk[p]}) >= KeyQuorum
        /\ \A q \in Node : decided_trans[q] \in {{}, th_pk[p]}

\* A node hands one transcript to ACS, whatever replies come while it is made, and
\* a key once formed stays.
FormedIsFinal ==
    [][\A p \in Node :
         /\ transcripts[p] # {} => transcripts'[p] = transcripts[p]
         /\ decided_trans[p] # {} => decided_trans'[p] = decided_trans[p]
         /\ th_pk[p] # {} => th_pk'[p] = th_pk[p]]_vars

\* The key generation does what KeyGeneration promises.
KeyGen == INSTANCE KeyGeneration WITH
    Keys <- {S \in SUBSET Node : Cardinality(S) = NumFaults + 1},
    Quorums <- {S \in SUBSET Node : Cardinality(S) >= KeyQuorum},
    dealt <- {d \in Node : transcripts[d] # {}}, secret <- decided_trans, public <- th_pk

\* LADKG implements KeyGeneration: one key of f + 1 dealers for all nodes, whatever
\* shares, transcripts and key shares reach a node when, and a public key of that key.
GeneratesOneKey == KeyGen!Spec
=============================================================================
