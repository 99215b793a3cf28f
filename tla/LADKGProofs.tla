---------------------------- MODULE LADKGProofs ----------------------------
(***************************************************************************)
(* Theorems about LADKG, for every set of nodes, fault bound, set of       *)
(* dealers, of bad shares and of crashes: its type invariant, that signers *)
(* hold what they signed and enough of them stay up, that transcripts and  *)
(* keys are final, that all nodes sum the same dealers and the public key  *)
(* is theirs, that it takes no more of ACS than CommonSubset and, when     *)
(* enough nodes deal once, that no task dies, that f + 1 dealers are       *)
(* summed, and that LADKG implements KeyGeneration.  The run as a whole    *)
(* (DKG) takes the steps of LADKG and no others, whatever is sent again    *)
(* and whoever stops, and STOP means that everybody is done.  What LADKG   *)
(* takes for granted of a valid transcript, Transcript::verify ensures.    *)
(***************************************************************************)
EXTENDS DKG, Transcript, FirstFew

\* Everything said about a dealer's sharing comes from a dealer that shared.
SharedInv ==
    /\ \A p \in shared : p \in pub_shares[p]
    /\ \A m \in privMsgs \union pubMsgs : m[1] \in shared
    /\ \A p \in Node : unvalidated_shares[p] \subseteq shared
    /\ \A m \in replyMsgs : m[2] \in shared

\* A signature stands for a share its signer holds, in flight and in certificates.
SignedInv ==
    /\ \A m \in replyMsgs : m[2] \in validated_my_share[m[1]]
    /\ \A d \in Node : \A p \in certificate[d] : d \in validated_my_share[p]
    /\ \A d \in Node : snapshot[d] \subseteq certificate[d]
    /\ \A d \in Node : transcripts[d] \subseteq certificate[d]

\* A transcript is made once, with a share for whoever did not sign it.
OnceInv ==
    /\ sleeping \subseteq counting_down
    /\ \A d \in Node : snapshot[d] # {} => d \in counting_down \ sleeping
    /\ \A d \in Node : transcripts[d] # {} =>
          /\ d \in counting_down \ sleeping /\ snapshot[d] = {}
          /\ supple_shares[d] = Node \ transcripts[d]

\* Whatever a transcript was made of, it was 2f + 1 signatures or more.
QuorumInv ==
    /\ \A d \in counting_down : Cardinality(certificate[d]) >= CertQuorum
    /\ \A d \in Node : snapshot[d] # {} => Cardinality(snapshot[d]) >= CertQuorum
    /\ \A d \in Node : transcripts[d] # {} => Cardinality(transcripts[d]) >= CertQuorum

\* Keys are formed from what ACS output, and a task dies only if none of it verifies.
KeyInv ==
    /\ \A d \in acs : transcripts[d] # {}
    /\ acs # {} => Cardinality(acs) >= KeyQuorum
    /\ \A p \in Node, S \in SUBSET Node :
          (decided_trans[p] # {} /\ S = acs) => S # {} /\ decided_trans[p] = Decide(S)
    /\ \A S \in SUBSET Node :
          (panicked # {} /\ S = acs) => S # {} /\ Decide(S) = {}

\* Nodes that have a secret key.
Keyed == {q \in Node : decided_trans[q] # {}}

\* Public key shares come from nodes that have a secret key, a public key from n - f
\* of them.
PublicInv ==
    /\ \A m \in pkMsgs : m[1] \in Keyed
    /\ awaiting_coin \subseteq Keyed
    /\ \A p \in Node : th_pk_shares[p] \subseteq Keyed
    /\ \A p \in Node : th_pk[p] # {} =>
          /\ Cardinality(Keyed) >= KeyQuorum
          /\ \A q \in Keyed : decided_trans[q] = th_pk[p]

IInv ==
    TypeOK /\ SharedInv /\ SignedInv /\ OnceInv /\ QuorumInv /\ KeyInv /\ PublicInv
-----------------------------------------------------------------------------
\* The initial states are well typed.
LEMMA InitTypeOK == Init => TypeOK
    BY DEF Init, TypeOK

\* What verify_my_share may do: with a valid share, keep it and sign.
LEMMA VerifyMyShareDoes ==
    ASSUME TypeOK, NEW p \in Node, NEW d \in Node, VerifyMyShare(p, d)
    PROVE  \/ UNCHANGED <<validated_my_share, replyMsgs>>
           \/ /\ validated_my_share' =
                    [validated_my_share EXCEPT ![p] = validated_my_share[p] \union {d}]
              /\ replyMsgs' = replyMsgs \union {<<p, d>>}
    BY DEF P2pSend, TypeOK, VerifyMyShare

LEMMA VerifyMyShareTypes ==
    ASSUME TypeOK, NEW p \in Node, NEW d \in Node, VerifyMyShare(p, d)
    PROVE  /\ validated_my_share' \in [Node -> SUBSET Node]
           /\ replyMsgs' \subseteq Node \X Node
    BY VerifyMyShareDoes DEF TypeOK

\* Every step keeps the types.
LEMMA NextTypeOK ==
    ASSUME TypeOK, SharedInv, [Next]_vars PROVE TypeOK'
<1> USE DEF TypeOK, shareVars, transVars, keyVars, netVars
<1>1. ASSUME NEW p \in Node, SharingPhase(p) PROVE TypeOK'
    <2>1. p \notin unvalidated_shares[p]
        BY <1>1 DEF SharingPhase, SharedInv
    <2> QED
        BY <1>1, <2>1 DEF Broadcast, P2pSend, SharingPhase
<1>12. ASSUME NEW p \in Node, SharingAgain(p) PROVE TypeOK'
    BY <1>12 DEF SharingAgain
<1>2. ASSUME NEW p \in Node, NEW d \in Node, ReceivePrivateShare(d, p) PROVE TypeOK'
    <2>1. CASE d \in pub_shares[p]
        BY <1>2, <2>1, VerifyMyShareTypes DEF ReceivePrivateShare
    <2>2. CASE d \notin pub_shares[p]
        BY <1>2, <2>2 DEF ReceivePrivateShare
    <2> QED
        BY <2>1, <2>2
<1>3. ASSUME NEW p \in Node, NEW d \in Node, ReceivePublicShare(d, p) PROVE TypeOK'
    <2>1. CASE Waiting(p, d) /\ d \notin BadPublic
      <3>1. /\ validated_my_share' \in [Node -> SUBSET Node]
            /\ replyMsgs' \subseteq Node \X Node
        BY <1>3, <2>1, VerifyMyShareTypes DEF ReceivePublicShare
      <3>2. /\ pub_shares' = [pub_shares EXCEPT ![p] = @ \union {d}]
            /\ unvalidated_shares' = [unvalidated_shares EXCEPT ![p] = @ \ {d}]
        BY <1>3, <2>1 DEF VerifyPubShare, ReceivePublicShare
      <3> QED
        BY <1>3, <3>1, <3>2 DEF ReceivePublicShare
    <2>2. CASE ~(Waiting(p, d) /\ d \notin BadPublic)
        BY <1>3, <2>2 DEF VerifyPubShare, ReceivePublicShare, Waiting
    <2> QED
        BY <2>1, <2>2
<1>4. ASSUME NEW p \in Node, NEW q \in Node, ReceiveReply(q, p) PROVE TypeOK'
    <2>1. CASE UNCHANGED transVars
        BY <1>4, <2>1 DEF ReceiveReply
    <2>2. CASE transcripts[p] = {} /\ p \in pub_shares[p]
      <3> DEFINE cert == certificate[p] \union {q}
      <3>1. cert \subseteq Node
        OBVIOUS
      <3>2. /\ transcripts' \in [Node -> SUBSET Node]
            /\ supple_shares' \in [Node -> SUBSET Node]
        BY <1>4, <2>2, <3>1 DEF ReceiveReply, Publish, Missing
      <3>3. unfit' \subseteq reshared' /\ reshared' = reshared
        BY <1>4, <2>2 DEF ReceiveReply, TakeStore
      <3> QED
        BY <1>4, <2>2, <3>1, <3>2, <3>3 DEF ReceiveReply
    <2> QED
        BY <1>4, <2>1, <2>2 DEF ReceiveReply
<1>5. ASSUME NEW p \in Node, ReadCertificate(p) PROVE TypeOK'
    BY <1>5 DEF ReadCertificate
<1>6. ASSUME NEW p \in Node, PublishTranscript(p) PROVE TypeOK'
    BY <1>6 DEF PublishTranscript, Publish, Missing
<1>7. ASSUME NEW p \in Node, HandleAcsResult(p) PROVE TypeOK'
    <2>1. PICK S \in SUBSET Node :
             /\ acs' = S
             /\ \/ UNCHANGED <<validated_my_share, decided_trans, awaiting_coin>>
                \/ /\ validated_my_share' =
                         [validated_my_share EXCEPT ![p] =
                             @ \union {d \in Decide(S) : p \in supple_shares[d]}]
                   /\ decided_trans' = [decided_trans EXCEPT ![p] = Decide(S)]
                   /\ awaiting_coin' = awaiting_coin \union {p}
             /\ panicked' \in {panicked, panicked \union {p}}
        BY <1>7 DEF HandleAcsResult
    <2>2. Decide(S) \subseteq Node
        BY DEF Decide
    <2> QED
        BY <1>7, <2>1, <2>2 DEF HandleAcsResult
<1>8. ASSUME NEW p \in Node, CoinArrives(p) PROVE TypeOK'
    BY <1>8 DEF Broadcast, CoinArrives
<1>9. ASSUME NEW p \in Node, NEW q \in Node, ReceivePubKey(q, p) PROVE TypeOK'
    <2>1. CASE th_pk[p] # {}
        BY <1>9, <2>1 DEF ReceivePubKey
    <2>2. CASE th_pk[p] = {}
      <3> DEFINE shares == th_pk_shares[p] \union {q}
      <3>1. shares \subseteq Node /\ shares # {}
        OBVIOUS
      <3>2. Reconstruct(shares) \subseteq Node
        <4>1. (CHOOSE r \in shares : TRUE) \in Node
            BY <3>1
        <4> QED
            BY <4>1 DEF Reconstruct
      <3>3. /\ th_pk_shares' = [th_pk_shares EXCEPT ![p] = shares]
            /\ th_pk' \in {th_pk, [th_pk EXCEPT ![p] = Reconstruct(shares)]}
        BY <1>9, <2>2 DEF ReceivePubKey
      <3> HIDE DEF shares
      <3> QED
        BY <1>9, <3>1, <3>2, <3>3 DEF ReceivePubKey
    <2> QED
        BY <2>1, <2>2
<1>10. ASSUME NEW p \in Node, Crash(p) PROVE TypeOK'
    BY <1>10 DEF Crash, Lost
<1>11. CASE UNCHANGED vars
    BY <1>11 DEF vars
<1> QED
    BY <1>1, <1>2, <1>3, <1>4, <1>5, <1>6, <1>7, <1>8, <1>9, <1>10, <1>11, <1>12
    DEF Next, Step
-----------------------------------------------------------------------------
\* SharedInv is inductive.
LEMMA InitSharedInv == Init => SharedInv
    BY DEF Init, SharedInv

LEMMA NextSharedInv ==
    ASSUME TypeOK, SharedInv, [Next]_vars PROVE SharedInv'
<1> USE DEF shareVars, transVars, keyVars, netVars
<1>1. ASSUME /\ shared' = shared
             /\ \A q \in Node : pub_shares[q] \subseteq pub_shares'[q]
             /\ privMsgs' \subseteq privMsgs /\ pubMsgs' \subseteq pubMsgs
             /\ \A q \in Node : unvalidated_shares'[q] \subseteq shared
             /\ \A m \in replyMsgs' : m[2] \in shared
      PROVE  SharedInv'
    BY <1>1, LADKGAssumption DEF TypeOK, SharedInv
<1>2. ASSUME NEW p \in Node, SharingPhase(p) PROVE SharedInv'
    <2>1. \A q \in shared' : q \in pub_shares'[q]
        BY <1>2, LADKGAssumption DEF TypeOK, SharedInv, SharingPhase
    <2>2. \A m \in privMsgs' \union pubMsgs' : m[1] \in shared'
        BY <1>2 DEF Broadcast, P2pSend, SharedInv, SharingPhase
    <2> QED
        BY <1>2, <2>1, <2>2 DEF SharedInv, SharingPhase
<1>3. ASSUME NEW p \in Node, NEW d \in Node, ReceivePrivateShare(d, p) PROVE SharedInv'
    <2>1. d \in shared
        BY <1>3 DEF SharedInv, ReceivePrivateShare
    <2>2. \A m \in replyMsgs' : m[2] \in shared
      <3>1. replyMsgs' \in {replyMsgs, replyMsgs \union {<<p, d>>}}
        BY <1>3, VerifyMyShareDoes DEF ReceivePrivateShare
      <3> QED
        BY <2>1, <3>1 DEF SharedInv
    <2>3. \A q \in Node : unvalidated_shares'[q] \subseteq shared
        BY <1>3, <2>1 DEF TypeOK, SharedInv, ReceivePrivateShare
    <2> QED
        BY <1>1, <1>3, <2>2, <2>3 DEF ReceivePrivateShare
<1>4. ASSUME NEW p \in Node, NEW d \in Node, ReceivePublicShare(d, p) PROVE SharedInv'
    <2>1. d \in shared
        BY <1>4 DEF SharedInv, ReceivePublicShare
    <2>2. \A m \in replyMsgs' : m[2] \in shared
      <3>1. replyMsgs' \in {replyMsgs, replyMsgs \union {<<p, d>>}}
        BY <1>4, VerifyMyShareDoes DEF ReceivePublicShare
      <3> QED
        BY <2>1, <3>1 DEF SharedInv
    <2>3. \A q \in Node : unvalidated_shares'[q] \subseteq unvalidated_shares[q]
        BY <1>4 DEF TypeOK, ReceivePublicShare
    <2>4. \A q \in Node : pub_shares[q] \subseteq pub_shares'[q]
        BY <1>4 DEF TypeOK, ReceivePublicShare
    <2> QED
        BY <1>1, <1>4, <2>2, <2>3, <2>4 DEF ReceivePublicShare, SharedInv
<1>5. ASSUME NEW p \in Node, NEW q \in Node, ReceiveReply(q, p) PROVE SharedInv'
    BY <1>1, <1>5 DEF ReceiveReply, SharedInv
<1>6. ASSUME NEW p \in Node, ReadCertificate(p) \/ PublishTranscript(p) PROVE SharedInv'
    BY <1>1, <1>6 DEF ReadCertificate, PublishTranscript, SharedInv
<1>7. ASSUME NEW p \in Node, SharingAgain(p) \/ HandleAcsResult(p) \/ CoinArrives(p)
      PROVE  SharedInv'
    BY <1>1, <1>7 DEF SharingAgain, HandleAcsResult, CoinArrives, SharedInv
<1>8. ASSUME NEW p \in Node, NEW q \in Node, ReceivePubKey(q, p) PROVE SharedInv'
    BY <1>1, <1>8 DEF ReceivePubKey, SharedInv
<1>9. ASSUME NEW p \in Node, Crash(p) PROVE SharedInv'
    BY <1>1, <1>9 DEF Crash, Lost, SharedInv
<1>10. CASE UNCHANGED vars
    BY <1>1, <1>10 DEF vars, SharedInv
<1> QED
    BY <1>2, <1>3, <1>4, <1>5, <1>6, <1>7, <1>8, <1>9, <1>10 DEF Next, Step

\* SignedInv is inductive: a reply follows the share it stands for.
LEMMA InitSignedInv == Init => SignedInv
    BY DEF Init, SignedInv

LEMMA NextSignedInv ==
    ASSUME TypeOK, SignedInv, [Next]_vars PROVE SignedInv'
<1> USE DEF shareVars, transVars, keyVars, netVars
<1>1. ASSUME /\ \A q \in Node : validated_my_share[q] \subseteq validated_my_share'[q]
             /\ \A m \in replyMsgs' : \/ m \in replyMsgs
                                      \/ m[2] \in validated_my_share'[m[1]]
             /\ UNCHANGED <<certificate, snapshot, transcripts>>
      PROVE  SignedInv'
    BY <1>1 DEF TypeOK, SignedInv
<1>2. ASSUME NEW p \in Node, NEW d \in Node, VerifyMyShare(p, d)
      PROVE  /\ \A q \in Node : validated_my_share[q] \subseteq validated_my_share'[q]
             /\ \A m \in replyMsgs' : m \in replyMsgs \/ m[2] \in validated_my_share'[m[1]]
    BY <1>2, VerifyMyShareDoes DEF TypeOK
<1>3. ASSUME NEW p \in Node, NEW d \in Node, ReceivePrivateShare(d, p) PROVE SignedInv'
    BY <1>1, <1>2, <1>3 DEF ReceivePrivateShare
<1>4. ASSUME NEW p \in Node, NEW d \in Node, ReceivePublicShare(d, p) PROVE SignedInv'
    BY <1>1, <1>2, <1>4 DEF ReceivePublicShare
<1>5. ASSUME NEW p \in Node, NEW q \in Node, ReceiveReply(q, p) PROVE SignedInv'
    <2>1. p \in validated_my_share[q]
        BY <1>5 DEF SignedInv, ReceiveReply
    <2>2. validated_my_share' = validated_my_share /\ replyMsgs' \subseteq replyMsgs
        BY <1>5 DEF ReceiveReply
    <2>3. CASE UNCHANGED transVars
        BY <1>1, <2>2, <2>3
    <2>4. CASE transcripts[p] = {} /\ p \in pub_shares[p]
      <3> DEFINE cert == certificate[p] \union {q}
      <3>1. /\ certificate' = [certificate EXCEPT ![p] = cert]
            /\ snapshot' = snapshot
            /\ transcripts' \in {transcripts, [transcripts EXCEPT ![p] = cert]}
        BY <1>5, <2>4 DEF ReceiveReply, Publish
      <3>2. \A d \in Node : \A r \in certificate'[d] : d \in validated_my_share[r]
        BY <2>1, <3>1 DEF TypeOK, SignedInv
      <3>3. \A d \in Node : /\ snapshot'[d] \subseteq certificate'[d]
                            /\ transcripts'[d] \subseteq certificate'[d]
        BY <3>1 DEF TypeOK, SignedInv
      <3> QED
        BY <2>2, <3>2, <3>3 DEF SignedInv
    <2> QED
        BY <1>5, <2>3, <2>4 DEF ReceiveReply
<1>6. ASSUME NEW p \in Node, ReadCertificate(p) PROVE SignedInv'
    BY <1>6 DEF TypeOK, SignedInv, ReadCertificate
<1>7. ASSUME NEW p \in Node, PublishTranscript(p) PROVE SignedInv'
    BY <1>7 DEF TypeOK, SignedInv, PublishTranscript, Publish
<1>8. ASSUME NEW p \in Node, HandleAcsResult(p) PROVE SignedInv'
    <2>1. \A q \in Node : validated_my_share[q] \subseteq validated_my_share'[q]
        BY <1>8 DEF TypeOK, HandleAcsResult
    <2> QED
        BY <1>1, <1>8, <2>1 DEF HandleAcsResult
<1>9. ASSUME NEW p \in Node, SharingPhase(p) \/ SharingAgain(p) \/ CoinArrives(p)
      PROVE  SignedInv'
    BY <1>1, <1>9 DEF SharingPhase, SharingAgain, CoinArrives
<1>10. ASSUME NEW p \in Node, NEW q \in Node, ReceivePubKey(q, p) PROVE SignedInv'
    BY <1>1, <1>10 DEF ReceivePubKey
<1>11. ASSUME NEW p \in Node, Crash(p) PROVE SignedInv'
    BY <1>1, <1>11 DEF Crash, Lost
<1>12. CASE UNCHANGED vars
    BY <1>1, <1>12 DEF vars
<1> QED
    BY <1>3, <1>4, <1>5, <1>6, <1>7, <1>8, <1>9, <1>10, <1>11, <1>12 DEF Next, Step
-----------------------------------------------------------------------------
\* A transcript that is out is not exchanged.
TranscriptsStay ==
    \A d \in Node : transcripts[d] # {} =>
        /\ transcripts'[d] = transcripts[d] /\ supple_shares'[d] = supple_shares[d]
        /\ d \in unfit' <=> d \in unfit

\* OnceInv is inductive, and every step it holds before keeps transcripts.
LEMMA InitOnceInv == Init => OnceInv
    BY DEF Init, OnceInv

LEMMA NextOnceInv ==
    ASSUME TypeOK, OnceInv, [Next]_vars PROVE OnceInv' /\ TranscriptsStay
<1> USE DEF shareVars, transVars, keyVars, netVars
<1>1. ASSUME UNCHANGED transVars PROVE OnceInv' /\ TranscriptsStay
    BY <1>1 DEF OnceInv, TranscriptsStay
<1>2. ASSUME NEW p \in Node, NEW q \in Node, ReceiveReply(q, p)
      PROVE  OnceInv' /\ TranscriptsStay
    <2>1. CASE transcripts[p] = {} /\ p \in pub_shares[p]
      <3> DEFINE cert == certificate[p] \union {q}
      <3>1. CASE ~Ready(p, cert)
        BY <1>2, <2>1, <3>1 DEF OnceInv, TranscriptsStay, ReceiveReply
      <3>2. CASE Ready(p, cert) /\ Instant
        <4>1. /\ p \notin counting_down
              /\ counting_down' = counting_down \union {p}
              /\ sleeping' = sleeping /\ snapshot' = snapshot
              /\ Publish(p, cert) /\ unfit' \in {unfit, unfit \union {p}}
            BY <1>2, <2>1, <3>2 DEF ReceiveReply, Ready, TakeStore
        <4> QED
            BY <2>1, <4>1 DEF TypeOK, OnceInv, TranscriptsStay, Publish, Missing
      <3>3. CASE Ready(p, cert) /\ ~Instant
        <4>1. /\ p \notin counting_down
              /\ counting_down' = counting_down \union {p}
              /\ sleeping' = sleeping \union {p}
              /\ UNCHANGED <<snapshot, transcripts, supple_shares>>
              /\ unfit' \in {unfit, unfit \union {p}}
            BY <1>2, <2>1, <3>3 DEF ReceiveReply, Ready, TakeStore
        <4> QED
            BY <2>1, <4>1 DEF TypeOK, OnceInv, TranscriptsStay
      <3> QED
        BY <3>1, <3>2, <3>3
    <2> QED
        BY <1>1, <1>2, <2>1 DEF ReceiveReply
<1>3. ASSUME NEW p \in Node, ReadCertificate(p) PROVE OnceInv' /\ TranscriptsStay
    BY <1>3 DEF TypeOK, OnceInv, TranscriptsStay, ReadCertificate
<1>4. ASSUME NEW p \in Node, PublishTranscript(p) PROVE OnceInv' /\ TranscriptsStay
    BY <1>4 DEF TypeOK, OnceInv, TranscriptsStay, PublishTranscript, Publish, Missing
<1>5. ASSUME NEW p \in Node, NEW q \in Node,
             \/ ReceivePrivateShare(q, p) \/ ReceivePublicShare(q, p)
             \/ ReceivePubKey(q, p)
      PROVE  UNCHANGED transVars
    BY <1>5 DEF ReceivePrivateShare, ReceivePublicShare, ReceivePubKey
<1>6. ASSUME NEW p \in Node,
             \/ SharingPhase(p) \/ SharingAgain(p) \/ HandleAcsResult(p)
             \/ CoinArrives(p) \/ Crash(p)
      PROVE  UNCHANGED transVars
    BY <1>6 DEF SharingPhase, SharingAgain, HandleAcsResult, CoinArrives, Crash
<1>7. CASE UNCHANGED vars
    BY <1>1, <1>7 DEF vars
<1> QED
    BY <1>1, <1>2, <1>3, <1>4, <1>5, <1>6, <1>7 DEF Next, Step

\* The choice of dealers depends on the transcripts of the set alone.
LEMMA DecideStays ==
    ASSUME TranscriptsStay, NEW S \in SUBSET Node, \A d \in S : transcripts[d] # {}
    PROVE  Decide(S)' = Decide(S)
<1>1. \A d \in S : /\ transcripts'[d] = transcripts[d]
                   /\ supple_shares'[d] = supple_shares[d] /\ (d \in unfit' <=> d \in unfit)
    BY DEF TranscriptsStay
<1>2. \A d \in S : Verifies(d)' <=> Verifies(d)
    BY <1>1 DEF Verifies
<1>3. \A d \in S, e \in S : SortsBefore(e, d)' <=> SortsBefore(e, d)
    BY <1>1 DEF SortsBefore
<1> DEFINE valid == {d \in S : Verifies(d)}
           before(d) == {e \in valid : SortsBefore(e, d)}
<1>4. valid' = valid
    BY <1>2
<1>5. \A d \in S : before(d)' = before(d)
    BY <1>3, <1>4
<1> QED
    BY <1>4, <1>5 DEF Decide

-----------------------------------------------------------------------------
\* Sets of nodes have a size, and larger sets no smaller one.
LEMMA NodeSets ==
    /\ IsFiniteSet(Node) /\ Cardinality(Node) \in Nat
    /\ \A S \in SUBSET Node : IsFiniteSet(S) /\ Cardinality(S) \in Nat
    /\ \A S \in SUBSET Node, T \in SUBSET Node :
          S \subseteq T => Cardinality(S) <= Cardinality(T)
<1>1. IsFiniteSet(Node)
    BY LADKGAssumption
<1>2. \A S \in SUBSET Node : IsFiniteSet(S)
    BY <1>1, FS_Subset
<1>3. \A S \in SUBSET Node, T \in SUBSET Node :
          S \subseteq T => Cardinality(S) <= Cardinality(T)
    BY <1>2, FS_Subset
<1> QED
    BY <1>1, <1>2, <1>3, FS_CardinalityType

LEMMA Quorums ==
    /\ CertQuorum \in Nat /\ CertQuorum > 0 /\ CertQuorum = 2 * NumFaults + 1
    /\ KeyQuorum \in Nat /\ KeyQuorum > 0 /\ KeyQuorum = Cardinality(Node) - NumFaults
    /\ NumFaults \in Nat
    BY NodeSets, LADKGAssumption DEF CertQuorum, KeyQuorum

\* QuorumInv is inductive: signatures are only added.
LEMMA InitQuorumInv == Init => QuorumInv
    BY DEF Init, QuorumInv

LEMMA NextQuorumInv ==
    ASSUME TypeOK, OnceInv, QuorumInv, [Next]_vars PROVE QuorumInv'
<1> USE DEF shareVars, transVars, keyVars, netVars
<1>1. ASSUME UNCHANGED <<certificate, counting_down, snapshot, transcripts>>
      PROVE  QuorumInv'
    BY <1>1 DEF QuorumInv
<1>2. ASSUME NEW p \in Node, NEW q \in Node, ReceiveReply(q, p) PROVE QuorumInv'
    <2> DEFINE cert == certificate[p] \union {q}
    <2>1. CASE UNCHANGED transVars
        BY <1>1, <2>1
    <2>2. CASE transcripts[p] = {} /\ p \in pub_shares[p]
      <3>1. /\ certificate' = [certificate EXCEPT ![p] = cert]
            /\ counting_down' = IF Ready(p, cert) THEN counting_down \union {p}
                                                  ELSE counting_down
            /\ snapshot' = snapshot
            /\ \/ transcripts' = transcripts
               \/ Ready(p, cert) /\ transcripts' = [transcripts EXCEPT ![p] = cert]
        BY <1>2, <2>2 DEF ReceiveReply, Publish
      <3>2. certificate[p] \subseteq cert /\ cert \subseteq Node
        BY DEF TypeOK
      <3>3. /\ Cardinality(certificate[p]) <= Cardinality(cert)
            /\ Cardinality(cert) \in Nat /\ Cardinality(certificate[p]) \in Nat
        BY <3>2, NodeSets
      <3>4. Ready(p, cert) => Cardinality(cert) >= CertQuorum
        BY DEF Ready
      <3> HIDE DEF cert
      <3>5. ASSUME NEW d \in counting_down' PROVE Cardinality(certificate'[d]) >= CertQuorum
        <4>1. counting_down \subseteq Node /\ certificate \in [Node -> SUBSET Node]
            BY DEF TypeOK
        <4>2. CASE d = p
            BY <3>1, <3>3, <3>4, <3>5, <4>1, <4>2, Quorums DEF QuorumInv
        <4>3. CASE d # p
            BY <3>1, <3>5, <4>1, <4>3 DEF QuorumInv
        <4> QED
            BY <4>2, <4>3
      <3>6. \A d \in Node : transcripts'[d] # {}
                               => Cardinality(transcripts'[d]) >= CertQuorum
        BY <3>1, <3>4 DEF QuorumInv, TypeOK
      <3> QED
        BY <3>1, <3>5, <3>6 DEF QuorumInv
    <2> QED
        BY <1>2, <2>1, <2>2 DEF ReceiveReply
<1>3. ASSUME NEW p \in Node, ReadCertificate(p) PROVE QuorumInv'
    <2>1. p \in counting_down
        BY <1>3 DEF ReadCertificate, OnceInv
    <2> QED
        BY <1>3, <2>1 DEF ReadCertificate, QuorumInv, TypeOK
<1>4. ASSUME NEW p \in Node, PublishTranscript(p) PROVE QuorumInv'
    BY <1>4 DEF PublishTranscript, Publish, QuorumInv, TypeOK
<1>5. ASSUME NEW p \in Node, NEW q \in Node,
             \/ ReceivePrivateShare(q, p) \/ ReceivePublicShare(q, p)
             \/ ReceivePubKey(q, p)
      PROVE  QuorumInv'
    BY <1>1, <1>5 DEF ReceivePrivateShare, ReceivePublicShare, ReceivePubKey
<1>6. ASSUME NEW p \in Node,
             \/ SharingPhase(p) \/ SharingAgain(p) \/ HandleAcsResult(p)
             \/ CoinArrives(p) \/ Crash(p)
      PROVE  QuorumInv'
    BY <1>1, <1>6 DEF SharingPhase, SharingAgain, HandleAcsResult, CoinArrives, Crash
<1>7. CASE UNCHANGED vars
    BY <1>1, <1>7 DEF vars
<1> QED
    BY <1>2, <1>3, <1>4, <1>5, <1>6, <1>7 DEF Next, Step
-----------------------------------------------------------------------------
\* What a node does with the output of ACS: the signers of a decided transcript hold
\* their share of it, and the others find one in it.
LEMMA AcsResultDoes ==
    ASSUME TypeOK, SignedInv, OnceInv, KeyInv, NEW p \in Node, HandleAcsResult(p)
    PROVE  \E S \in SUBSET Node :
              /\ S # {} /\ acs' = S /\ acs \in {{}, S}
              /\ \A d \in S : transcripts[d] # {}
              /\ Cardinality(S) >= KeyQuorum
              /\ decided_trans[p] = {}
              /\ \/ /\ Decide(S) # {} /\ panicked' = panicked
                    /\ decided_trans' = [decided_trans EXCEPT ![p] = Decide(S)]
                    /\ awaiting_coin' = awaiting_coin \union {p}
                 \/ /\ Decide(S) = {} /\ panicked' = panicked \union {p}
                    /\ UNCHANGED <<decided_trans, awaiting_coin>>
<1>1. PICK S \in SUBSET Node :
         /\ S # {} /\ AcsOutput(S) /\ acs' = S
         /\ LET held == validated_my_share[p]
                          \union {d \in Decide(S) : p \in supple_shares[d]}
            IN  IF HasShares(Decide(S), held)
                THEN /\ decided_trans' = [decided_trans EXCEPT ![p] = Decide(S)]
                     /\ awaiting_coin' = awaiting_coin \union {p}
                     /\ panicked' = panicked
                ELSE /\ panicked' = panicked \union {p}
                     /\ UNCHANGED <<decided_trans, awaiting_coin>>
    BY DEF HandleAcsResult
<1>2. /\ \A d \in S : transcripts[d] # {}
      /\ Cardinality(S) >= KeyQuorum /\ acs \in {{}, S}
    BY <1>1 DEF AcsOutput, KeyInv
<1>3. \A d \in Decide(S) \ validated_my_share[p] : p \in supple_shares[d]
  <2> SUFFICES ASSUME NEW d \in Decide(S), d \notin validated_my_share[p]
               PROVE  p \in supple_shares[d]
    OBVIOUS
  <2>1. d \in S /\ d \in Node
    BY DEF Decide
  <2>2. p \notin transcripts[d]
    BY <2>1 DEF SignedInv
  <2> QED
    BY <1>2, <2>1, <2>2 DEF OnceInv
<1>4. Decide(S) # {} => HasShares(Decide(S), validated_my_share[p]
                                     \union {d \in Decide(S) : p \in supple_shares[d]})
    BY <1>3 DEF HasShares
<1>5. Decide(S) = {} => ~HasShares(Decide(S), validated_my_share[p]
                                     \union {d \in Decide(S) : p \in supple_shares[d]})
    BY DEF HasShares
<1>6. decided_trans[p] = {}
    BY DEF HandleAcsResult
<1> QED
    BY <1>1, <1>2, <1>4, <1>5, <1>6

\* KeyInv is inductive.
LEMMA InitKeyInv == Init => KeyInv
    BY DEF Init, KeyInv

LEMMA NextKeyInv ==
    ASSUME TypeOK, SharedInv, SignedInv, OnceInv, KeyInv, [Next]_vars PROVE KeyInv'
<1> USE DEF shareVars, transVars, keyVars, netVars
<1>1. TranscriptsStay
    BY NextOnceInv
<1>2. \A S \in SUBSET Node : (\A d \in S : transcripts[d] # {}) =>
             /\ \A d \in S : transcripts'[d] # {}
             /\ Decide(S)' = Decide(S)
    BY <1>1, DecideStays DEF TranscriptsStay
<1>3. ASSUME UNCHANGED <<acs, decided_trans, panicked>> PROVE KeyInv'
    BY <1>2, <1>3 DEF TypeOK, KeyInv
<1>4. ASSUME NEW p \in Node, NEW q \in Node, ReceiveReply(q, p) PROVE KeyInv'
    <2>1. p \in pub_shares[p]
        BY <1>4 DEF SharedInv, ReceiveReply
    <2>2. panicked' = panicked
        BY <1>4, <2>1 DEF ReceiveReply
    <2> QED
        BY <1>3, <1>4, <2>2 DEF ReceiveReply
<1>5. ASSUME NEW p \in Node, HandleAcsResult(p) PROVE KeyInv'
    <2>1. PICK S \in SUBSET Node :
             /\ S # {} /\ acs' = S /\ acs \in {{}, S}
             /\ \A d \in S : transcripts[d] # {}
             /\ Cardinality(S) >= KeyQuorum
             /\ \/ /\ Decide(S) # {} /\ panicked' = panicked
                   /\ decided_trans' = [decided_trans EXCEPT ![p] = Decide(S)]
                \/ /\ Decide(S) = {} /\ panicked' = panicked \union {p}
                   /\ UNCHANGED decided_trans
        BY <1>5, AcsResultDoes
    <2>2. Decide(S)' = Decide(S) /\ \A d \in S : transcripts'[d] # {}
        BY <1>2, <2>1
    <2>3. \A q \in Node : decided_trans'[q] # {} => decided_trans'[q] = Decide(S)
        BY <2>1 DEF TypeOK, KeyInv
    <2>4. panicked' # {} => Decide(S) = {}
        <3>1. CASE panicked # {}
            BY <2>1, <3>1 DEF KeyInv
        <3> QED
            BY <2>1, <3>1
    <2> QED
        BY <2>1, <2>2, <2>3, <2>4 DEF KeyInv
<1>6. ASSUME NEW p \in Node, NEW q \in Node,
             \/ ReceivePrivateShare(q, p) \/ ReceivePublicShare(q, p)
             \/ ReceivePubKey(q, p)
      PROVE  KeyInv'
    BY <1>3, <1>6 DEF ReceivePrivateShare, ReceivePublicShare, ReceivePubKey
<1>7. ASSUME NEW p \in Node,
             \/ SharingPhase(p) \/ SharingAgain(p) \/ ReadCertificate(p)
             \/ PublishTranscript(p) \/ CoinArrives(p) \/ Crash(p)
      PROVE  KeyInv'
    BY <1>3, <1>7 DEF SharingPhase, SharingAgain, ReadCertificate, PublishTranscript,
                      CoinArrives, Crash
<1>8. CASE UNCHANGED vars
    BY <1>3, <1>8 DEF vars
<1> QED
    BY <1>4, <1>5, <1>6, <1>7, <1>8 DEF Next, Step
-----------------------------------------------------------------------------
\* A secret key once formed stays.
KeysStay == \A q \in Node : decided_trans[q] # {} => decided_trans'[q] = decided_trans[q]

LEMMA NextKeysStay ==
    ASSUME TypeOK, [Next]_vars PROVE KeysStay
<1> USE DEF shareVars, transVars, keyVars, netVars
<1>1. CASE UNCHANGED decided_trans
    BY <1>1 DEF KeysStay
<1>2. ASSUME NEW p \in Node, HandleAcsResult(p) PROVE KeysStay
    <2>1. decided_trans[p] = {}
        BY <1>2 DEF HandleAcsResult
    <2>2. \/ decided_trans' = decided_trans
          \/ \E S \in SUBSET Node : decided_trans' = [decided_trans EXCEPT ![p] = Decide(S)]
        BY <1>2 DEF HandleAcsResult
    <2> QED
        BY <2>1, <2>2 DEF KeysStay, TypeOK
<1>3. ASSUME NEW p \in Node, NEW q \in Node,
             \/ ReceivePrivateShare(q, p) \/ ReceivePublicShare(q, p)
             \/ ReceiveReply(q, p) \/ ReceivePubKey(q, p)
      PROVE  UNCHANGED decided_trans
    BY <1>3 DEF ReceivePrivateShare, ReceivePublicShare, ReceiveReply, ReceivePubKey
<1>4. ASSUME NEW p \in Node,
             \/ SharingPhase(p) \/ SharingAgain(p) \/ ReadCertificate(p)
             \/ PublishTranscript(p) \/ CoinArrives(p) \/ Crash(p)
      PROVE  UNCHANGED decided_trans
    BY <1>4 DEF SharingPhase, SharingAgain, ReadCertificate, PublishTranscript,
                CoinArrives, Crash
<1>5. CASE UNCHANGED vars
    BY <1>1, <1>5 DEF vars
<1> QED
    BY <1>1, <1>2, <1>3, <1>4, <1>5 DEF Next, Step

\* A public key is rebuilt once, from the shares of n - f nodes that have their key.
LEMMA PubKeyDoes ==
    ASSUME TypeOK, KeyInv, PublicInv, NEW p \in Node, NEW q \in Node, ReceivePubKey(q, p)
    PROVE  /\ UNCHANGED <<transcripts, acs, decided_trans, awaiting_coin>>
           /\ pkMsgs' \subseteq pkMsgs
           /\ \A r \in Node : th_pk_shares'[r] \subseteq Keyed
           /\ \/ th_pk' = th_pk
              \/ /\ th_pk[p] = {} /\ Cardinality(Keyed) >= KeyQuorum
                 /\ \E k \in SUBSET Node :
                       /\ k # {} /\ th_pk' = [th_pk EXCEPT ![p] = k]
                       /\ \A r \in Keyed : decided_trans[r] = k
<1> DEFINE shares == th_pk_shares[p] \union {q}
<1>1. q \in Keyed
    BY DEF ReceivePubKey, PublicInv
<1>2. shares \subseteq Keyed /\ Keyed \subseteq Node
    BY <1>1 DEF PublicInv, Keyed
<1>3. /\ th_pk_shares' \in {th_pk_shares, [th_pk_shares EXCEPT ![p] = shares]}
      /\ \/ th_pk' = th_pk
         \/ /\ th_pk[p] = {} /\ Enough(shares)
            /\ th_pk' = [th_pk EXCEPT ![p] = Reconstruct(shares)]
    BY DEF ReceivePubKey
<1>4. \A r \in Node : th_pk_shares'[r] \subseteq Keyed
    BY <1>2, <1>3 DEF PublicInv, TypeOK
<1>5. Enough(shares) =>
         /\ Cardinality(Keyed) >= KeyQuorum
         /\ \E k \in SUBSET Node : /\ k # {} /\ Reconstruct(shares) = k
                                   /\ \A r \in Keyed : decided_trans[r] = k
  <2>1. ASSUME Enough(shares) PROVE Cardinality(Keyed) >= KeyQuorum
    <3>1. Cardinality(shares) <= Cardinality(Keyed) /\ Cardinality(shares) >= KeyQuorum
        BY <1>2, <2>1, NodeSets DEF Enough
    <3>2. Cardinality(shares) \in Nat /\ Cardinality(Keyed) \in Nat
        BY <1>2, NodeSets
    <3> QED
        BY <3>1, <3>2, Quorums
  <2> DEFINE k == decided_trans[q]
  <2>2. k \in SUBSET Node /\ k # {} /\ \A r \in Keyed : decided_trans[r] = k
    BY <1>1, <1>2 DEF Keyed, KeyInv, TypeOK
  <2>3. (CHOOSE r \in shares : TRUE) \in shares
    OBVIOUS
  <2> HIDE DEF k, shares
  <2>4. Reconstruct(shares) = k
    BY <1>2, <2>2, <2>3 DEF Reconstruct
  <2> QED
    BY <2>1, <2>2, <2>4
<1>6. /\ UNCHANGED <<transcripts, acs, decided_trans, awaiting_coin>>
      /\ pkMsgs' \subseteq pkMsgs
    BY DEF ReceivePubKey, transVars
<1> HIDE DEF shares
<1> QED
    BY <1>3, <1>4, <1>5, <1>6

\* PublicInv is inductive.
LEMMA InitPublicInv == Init => PublicInv
    BY DEF Init, PublicInv

LEMMA NextPublicInv ==
    ASSUME TypeOK, SignedInv, OnceInv, KeyInv, PublicInv, TypeOK', KeyInv', [Next]_vars
    PROVE  PublicInv'
<1> USE DEF shareVars, transVars, keyVars, netVars
<1>1. KeysStay
    BY NextKeysStay
<1>2. Keyed \subseteq Keyed' /\ Keyed' \subseteq Node
    BY <1>1 DEF Keyed, KeysStay
<1>3. Cardinality(Keyed) >= KeyQuorum => Cardinality(Keyed') >= KeyQuorum
    <2>1. Keyed \subseteq Node /\ Cardinality(Keyed) <= Cardinality(Keyed')
        BY <1>2, NodeSets
    <2>2. Cardinality(Keyed) \in Nat /\ Cardinality(Keyed') \in Nat
        BY <1>2, <2>1, NodeSets
    <2> QED
        BY <2>1, <2>2, Quorums
<1>4. \A p \in Node : th_pk[p] # {} => \A q \in Keyed' : decided_trans'[q] = th_pk[p]
    <2> SUFFICES ASSUME NEW p \in Node, th_pk[p] # {}, NEW q \in Keyed'
                 PROVE  decided_trans'[q] = th_pk[p]
        OBVIOUS
    <2>1. PICK r \in Keyed : TRUE
        <3>1. Cardinality(Keyed) >= KeyQuorum
            BY DEF PublicInv
        <3>2. Cardinality(Keyed) # 0
            BY <3>1, Quorums
        <3> QED
            BY <3>2, FS_EmptySet
    <2>2. r \in Keyed' /\ decided_trans'[r] = th_pk[p]
        BY <1>1, <1>2, <2>1 DEF PublicInv, Keyed, KeysStay
    <2>3. decided_trans'[q] = decided_trans'[r]
        <3>1. acs' \in SUBSET Node
            BY DEF TypeOK
        <3> QED
            BY <2>2, <3>1 DEF KeyInv, Keyed
    <2> QED
        BY <2>2, <2>3
<1>5. ASSUME UNCHANGED <<th_pk_shares, th_pk>>, awaiting_coin' \subseteq Keyed',
             pkMsgs' \subseteq pkMsgs
      PROVE  PublicInv'
    BY <1>2, <1>3, <1>4, <1>5 DEF PublicInv
<1>6. ASSUME NEW p \in Node, HandleAcsResult(p) PROVE PublicInv'
    <2>1. awaiting_coin' \subseteq Keyed'
        <3>1. \/ UNCHANGED awaiting_coin
              \/ \E S \in SUBSET Node :
                    /\ Decide(S) # {}
                    /\ decided_trans' = [decided_trans EXCEPT ![p] = Decide(S)]
                    /\ awaiting_coin' = awaiting_coin \union {p}
            BY <1>6, AcsResultDoes
        <3>2. \/ UNCHANGED awaiting_coin
              \/ p \in Keyed' /\ awaiting_coin' = awaiting_coin \union {p}
            BY <3>1 DEF Keyed, TypeOK
        <3> QED
            BY <1>2, <3>2 DEF PublicInv
    <2> QED
        BY <1>5, <1>6, <2>1 DEF HandleAcsResult
<1>7. ASSUME NEW p \in Node, CoinArrives(p) PROVE PublicInv'
    <2>1. p \in Keyed
        BY <1>7 DEF CoinArrives, PublicInv
    <2>2. \A m \in pkMsgs' : m[1] \in Keyed
        BY <1>7, <2>1 DEF CoinArrives, Broadcast, PublicInv
    <2>3. \A q \in Node : th_pk_shares'[q] \subseteq Keyed
        BY <1>7, <2>1 DEF CoinArrives, PublicInv, TypeOK
    <2>4. awaiting_coin' \subseteq Keyed /\ th_pk' = th_pk
        BY <1>7 DEF CoinArrives, PublicInv
    <2> QED
        BY <1>2, <1>3, <1>4, <2>2, <2>3, <2>4 DEF PublicInv
<1>8. ASSUME NEW p \in Node, NEW q \in Node, ReceivePubKey(q, p) PROVE PublicInv'
    <2>1. Keyed' = Keyed /\ decided_trans' = decided_trans
        BY <1>8 DEF ReceivePubKey, Keyed
    <2>2. /\ pkMsgs' \subseteq pkMsgs /\ awaiting_coin' = awaiting_coin
          /\ \A r \in Node : th_pk_shares'[r] \subseteq Keyed
          /\ \/ th_pk' = th_pk
             \/ /\ Cardinality(Keyed) >= KeyQuorum
                /\ \E k \in SUBSET Node :
                      /\ k # {} /\ th_pk' = [th_pk EXCEPT ![p] = k]
                      /\ \A r \in Keyed : decided_trans[r] = k
        BY <1>8, PubKeyDoes
    <2>3. \A r \in Node : th_pk'[r] # {} =>
             /\ Cardinality(Keyed) >= KeyQuorum
             /\ \A s \in Keyed : decided_trans[s] = th_pk'[r]
        BY <2>2 DEF PublicInv, TypeOK
    <2> QED
        BY <2>1, <2>2, <2>3 DEF PublicInv
<1>9. ASSUME NEW p \in Node, NEW q \in Node,
             \/ ReceivePrivateShare(q, p) \/ ReceivePublicShare(q, p)
             \/ ReceiveReply(q, p)
      PROVE  PublicInv'
    <2>1. UNCHANGED <<th_pk_shares, th_pk, awaiting_coin, pkMsgs>>
        BY <1>9 DEF ReceivePrivateShare, ReceivePublicShare, ReceiveReply
    <2> QED
        BY <1>2, <1>5, <2>1 DEF PublicInv
<1>10. ASSUME NEW p \in Node,
              \/ SharingPhase(p) \/ SharingAgain(p) \/ ReadCertificate(p)
              \/ PublishTranscript(p) \/ Crash(p)
       PROVE  PublicInv'
    <2>1. UNCHANGED <<th_pk_shares, th_pk, awaiting_coin>> /\ pkMsgs' \subseteq pkMsgs
        BY <1>10 DEF SharingPhase, SharingAgain, ReadCertificate, PublishTranscript,
                     Crash, Lost
    <2> QED
        BY <1>2, <1>5, <2>1 DEF PublicInv
<1>11. CASE UNCHANGED vars
    BY <1>2, <1>5, <1>11 DEF vars, PublicInv
<1> QED
    BY <1>6, <1>7, <1>8, <1>9, <1>10, <1>11 DEF Next, Step
-----------------------------------------------------------------------------
\* The invariant is inductive, and holds in every behaviour.
LEMMA NextIInv ==
    ASSUME IInv, [Next]_vars PROVE IInv'
<1>1. TypeOK' /\ SharedInv' /\ SignedInv' /\ OnceInv' /\ QuorumInv' /\ KeyInv'
    BY NextTypeOK, NextSharedInv, NextSignedInv, NextOnceInv, NextQuorumInv, NextKeyInv
    DEF IInv
<1> QED
    BY <1>1, NextPublicInv DEF IInv

LEMMA Inductive == Spec => []IInv
<1>1. Init => IInv
    BY InitTypeOK, InitSharedInv, InitSignedInv, InitOnceInv, InitQuorumInv, InitKeyInv,
       InitPublicInv DEF IInv
<1> QED
    BY <1>1, NextIInv, PTL DEF Spec
-----------------------------------------------------------------------------
(* The choice of dealers.                                                  *)

\* The order of sort_transcripts on a set of transcripts.
Sorted(S) == {m \in S \X S : SortsBefore(m[1], m[2])}

LEMMA SortOrders ==
    ASSUME TypeOK, NEW S \in SUBSET Node PROVE Orders(Sorted(S), S)
<1>1. \A d \in S : Cardinality(transcripts[d]) \in Nat /\ d \in Nat
    BY NodeSets, LADKGAssumption DEF TypeOK
<1>2. \A a \in S, b \in S : <<a, b>> \in Sorted(S) <=> SortsBefore(a, b)
    BY DEF Sorted
<1>3. \A a \in S : ~SortsBefore(a, a)
    BY <1>1 DEF SortsBefore
<1>4. \A a \in S, b \in S, c \in S :
          SortsBefore(a, b) /\ SortsBefore(b, c) => SortsBefore(a, c)
    BY <1>1 DEF SortsBefore
<1>5. \A a \in S, b \in S : a # b => SortsBefore(a, b) \/ SortsBefore(b, a)
    BY <1>1 DEF SortsBefore
<1> QED
    BY <1>2, <1>3, <1>4, <1>5 DEF Orders

\* The transcripts of a set that verify.
Valid(S) == {d \in S : Verifies(d)}

\* Of the transcripts that verify, the first f + 1 are decided, or all if they are
\* fewer.
LEMMA DecideTakes ==
    ASSUME TypeOK, NEW S \in SUBSET Node
    PROVE  /\ Valid(S) # {} => Decide(S) # {}
           /\ Cardinality(Valid(S)) > NumFaults => Cardinality(Decide(S)) = NumFaults + 1
<1> DEFINE V == Valid(S)
           R == Sorted(V)
<1>1. V \subseteq S /\ V \in SUBSET Node
    BY DEF Valid
<1>2. Orders(R, V) /\ IsFiniteSet(V) /\ Cardinality(V) \in Nat
    BY <1>1, SortOrders, NodeSets
<1>3. \A d \in V : Before(R, V, d) = {e \in V : SortsBefore(e, d)}
    BY DEF Before, Sorted
<1>4. \A d \in V : Cardinality(Before(R, V, d)) \in Nat
    BY <1>2, BeforeGrows
<1>5. Decide(S) = FirstOf(R, V, NumFaults + 1)
    <2>1. Decide(S) = {d \in V : Cardinality({e \in V : SortsBefore(e, d)}) <= NumFaults}
        BY DEF Decide, Valid
    <2>2. \A d \in V : Cardinality({e \in V : SortsBefore(e, d)}) <= NumFaults
                          <=> Cardinality(Before(R, V, d)) < NumFaults + 1
        <3>1. \A k \in Nat : k <= NumFaults <=> k < NumFaults + 1
            BY Quorums
        <3>2. \A d \in V : Cardinality(Before(R, V, d)) <= NumFaults
                              <=> Cardinality(Before(R, V, d)) < NumFaults + 1
            BY <1>4, <3>1
        <3> QED
            BY <1>3, <3>2
    <2> QED
        BY <2>1, <2>2 DEF FirstOf
<1> HIDE DEF V, R
<1>6. Cardinality(V) > NumFaults => Cardinality(Decide(S)) = NumFaults + 1
    BY <1>2, <1>5, FirstFew, Quorums
<1>7. V # {} => Decide(S) # {}
    <2>1. ASSUME V # {} PROVE Cardinality(FirstOf(R, V, 1)) = 1
        <3>1. Cardinality(V) # 0
            BY <1>2, <2>1, FS_EmptySet
        <3> QED
            BY <1>2, <3>1, FirstFew
    <2>2. FirstOf(R, V, 1) \subseteq FirstOf(R, V, NumFaults + 1)
        BY <1>4, Quorums DEF FirstOf
    <2> QED
        BY <1>5, <2>1, <2>2, FS_EmptySet
<1> QED
    BY <1>6, <1>7 DEF V

\* A transcript verifies unless its dealer has dealt again: all but |Again| of the
\* transcripts ACS outputs do.
LEMMA MostAreValid ==
    ASSUME TypeOK, OnceInv, NEW S \in SUBSET Node, \A d \in S : transcripts[d] # {},
           Cardinality(S) >= KeyQuorum
    PROVE  Cardinality(Valid(S)) >= KeyQuorum - Cardinality(Again)
<1>1. S \ Again \subseteq Valid(S) /\ Valid(S) \subseteq Node
    BY DEF Valid, Verifies, OnceInv, TypeOK
<1>2. Cardinality(S \ Again) = Cardinality(S) - Cardinality(S \cap Again)
    BY NodeSets, FS_Difference
<1>3. Again \subseteq Node /\ S \cap Again \subseteq Again
    BY LADKGAssumption
<1>4. /\ Cardinality(S \cap Again) <= Cardinality(Again)
      /\ Cardinality(S \ Again) <= Cardinality(Valid(S))
    BY <1>1, <1>3, NodeSets
<1>5. /\ Cardinality(S \cap Again) \in Nat /\ Cardinality(Again) \in Nat
      /\ Cardinality(S \ Again) \in Nat /\ Cardinality(Valid(S)) \in Nat
      /\ Cardinality(S) \in Nat
    BY <1>1, <1>3, NodeSets
<1> QED
    BY <1>2, <1>4, <1>5, Quorums

\* How many nodes may deal again: so few that ACS always outputs a transcript that
\* verifies, and so few that it always outputs f + 1.
SomeDealOnce == Cardinality(Again) < KeyQuorum
EnoughDealOnce == Cardinality(Again) + NumFaults < KeyQuorum

LEMMA AgainSize == Cardinality(Again) \in Nat
    BY NodeSets, LADKGAssumption

\* What nodes sum, if enough of them deal once.
LEMMA KeySize ==
    ASSUME EnoughDealOnce, IInv, NEW p \in Node, decided_trans[p] # {}
    PROVE  Cardinality(decided_trans[p]) = NumFaults + 1
<1>1. acs \in SUBSET Node /\ decided_trans[p] = Decide(acs) /\ acs # {}
    BY DEF IInv, TypeOK, KeyInv
<1>2. Cardinality(Valid(acs)) >= KeyQuorum - Cardinality(Again)
    BY <1>1, MostAreValid DEF IInv, KeyInv
<1>3. Cardinality(Valid(acs)) > NumFaults
    <2>1. Valid(acs) \in SUBSET Node
        BY <1>1 DEF Valid
    <2> QED
        BY <1>2, <2>1, NodeSets, Quorums, AgainSize DEF EnoughDealOnce
<1> QED
    BY <1>1, <1>3, DecideTakes DEF IInv
-----------------------------------------------------------------------------
(* Theorems.                                                               *)

\* LADKG keeps its types, and no private share waits beside its public share.
THEOREM TypeCorrect == Spec => []TypeOK
<1>1. IInv => TypeOK
    BY DEF IInv
<1> QED
    BY <1>1, Inductive, PTL

\* Whoever signed a transcript holds the share it signed for.
THEOREM SignersHoldSharesHolds == Spec => []SignersHoldShares
<1>1. IInv => SignersHoldShares
    BY DEF IInv, SignedInv, SignersHoldShares
<1> QED
    BY <1>1, Inductive, PTL

\* Of the 2f + 1 signers of a transcript f + 1 are up, as long as at most f nodes stop.
THEOREM TranscriptsAreBackedHolds == Spec => []TranscriptsAreBacked
<1>1. IInv => TranscriptsAreBacked
  <2> SUFFICES ASSUME IInv, NEW d \in Node, transcripts[d] # {},
                      Cardinality(crashed) <= NumFaults
               PROVE  Cardinality({p \in Node \ crashed : d \in validated_my_share[p]})
                          > NumFaults
    BY DEF TranscriptsAreBacked
  <2> DEFINE cert    == transcripts[d]
             holders == {p \in Node \ crashed : d \in validated_my_share[p]}
  <2>1. /\ cert \subseteq Node /\ crashed \subseteq Node /\ holders \subseteq Node
        /\ Cardinality(cert) >= CertQuorum
    BY DEF IInv, TypeOK, QuorumInv
  <2>2. cert \ crashed \subseteq holders
    BY <2>1 DEF IInv, SignedInv
  <2> HIDE DEF cert, holders
  <2>3. Cardinality(cert \ crashed) = Cardinality(cert) - Cardinality(cert \cap crashed)
    BY <2>1, NodeSets, FS_Difference
  <2>4. /\ Cardinality(cert \cap crashed) <= Cardinality(crashed)
        /\ Cardinality(cert \ crashed) <= Cardinality(holders)
    BY <2>1, <2>2, NodeSets
  <2>5. /\ Cardinality(cert) \in Nat /\ Cardinality(crashed) \in Nat
        /\ Cardinality(cert \cap crashed) \in Nat /\ Cardinality(holders) \in Nat
        /\ Cardinality(cert \ crashed) \in Nat
    BY <2>1, NodeSets
  <2>6. Cardinality(holders) > NumFaults
    BY <2>1, <2>3, <2>4, <2>5, Quorums
  <2> QED
    BY <2>6 DEF holders
<1> QED
    BY <1>1, Inductive, PTL

\* No unwrap of handle_network_message or handle_acs_result fails, in whatever order
\* shares, replies, transcripts and the output of ACS reach a node, as long as fewer
\* than n - f nodes deal again.
THEOREM NoPanicHolds ==
    ASSUME SomeDealOnce PROVE Spec => []NoPanic
<1>1. IInv => NoPanic
  <2> SUFFICES ASSUME IInv, panicked # {} PROVE FALSE
    BY DEF NoPanic
  <2>1. acs \in SUBSET Node /\ acs # {} /\ Decide(acs) = {}
    BY DEF IInv, TypeOK, KeyInv
  <2>2. Cardinality(Valid(acs)) >= KeyQuorum - Cardinality(Again)
    BY <2>1, MostAreValid DEF IInv, KeyInv
  <2>3. Valid(acs) # {}
    BY <2>2, FS_EmptySet, Quorums, AgainSize DEF SomeDealOnce
  <2> QED
    BY <2>1, <2>3, DecideTakes DEF IInv
<1> QED
    BY <1>1, Inductive, PTL

\* All nodes sum the shares of the same dealers.
THEOREM SecretKeyAgreementHolds == Spec => []SecretKeyAgreement
<1>1. IInv => SecretKeyAgreement
    BY DEF IInv, TypeOK, KeyInv, SecretKeyAgreement
<1> QED
    BY <1>1, Inductive, PTL

\* They are f + 1 dealers, as long as few nodes deal again.
THEOREM OneDealerIsHonestHolds ==
    ASSUME EnoughDealOnce PROVE Spec => []OneDealerIsHonest
<1>1. IInv => OneDealerIsHonest
    BY KeySize DEF OneDealerIsHonest
<1> QED
    BY <1>1, Inductive, PTL

\* A public key is the one of n - f secret key shares, and of all there are.
LEMMA PublicMatches == IInv => PublicKeyMatches
<1> SUFFICES ASSUME IInv, NEW p \in Node, th_pk[p] # {}
             PROVE  /\ Cardinality({q \in Node : decided_trans[q] = th_pk[p]}) >= KeyQuorum
                    /\ \A q \in Node : decided_trans[q] \in {{}, th_pk[p]}
    BY DEF PublicKeyMatches
<1>1. {q \in Node : decided_trans[q] = th_pk[p]} = Keyed
    BY DEF IInv, PublicInv, Keyed
<1>2. \A q \in Node : decided_trans[q] \in {{}, th_pk[p]}
    BY DEF IInv, PublicInv, Keyed
<1> QED
    BY <1>1, <1>2 DEF IInv, PublicInv

THEOREM PublicKeyMatchesHolds == Spec => []PublicKeyMatches
    BY PublicMatches, Inductive, PTL

\* No step takes back a public key, nor a transcript or a secret key.
LEMMA NextFormed ==
    ASSUME IInv, [Next]_vars
    PROVE  \A p \in Node :
              /\ transcripts[p] # {} => transcripts'[p] = transcripts[p]
              /\ decided_trans[p] # {} => decided_trans'[p] = decided_trans[p]
              /\ th_pk[p] # {} => th_pk'[p] = th_pk[p]
<1>1. TranscriptsStay /\ KeysStay
  BY NextOnceInv, NextKeysStay DEF IInv
<1>2. \A p \in Node : th_pk[p] # {} => th_pk'[p] = th_pk[p]
  <2>1. ASSUME NEW p \in Node, NEW q \in Node, ReceivePubKey(q, p)
        PROVE  \A r \in Node : th_pk[r] # {} => th_pk'[r] = th_pk[r]
      BY <2>1, PubKeyDoes DEF IInv, TypeOK
  <2>2. ASSUME NEW p \in Node, NEW q \in Node,
               \/ ReceivePrivateShare(q, p) \/ ReceivePublicShare(q, p)
               \/ ReceiveReply(q, p)
        PROVE  th_pk' = th_pk
      BY <2>2 DEF ReceivePrivateShare, ReceivePublicShare, ReceiveReply, keyVars
  <2>3. ASSUME NEW p \in Node,
               \/ SharingPhase(p) \/ SharingAgain(p) \/ ReadCertificate(p)
               \/ PublishTranscript(p) \/ HandleAcsResult(p) \/ CoinArrives(p)
               \/ Crash(p)
        PROVE  th_pk' = th_pk
      BY <2>3 DEF SharingPhase, SharingAgain, ReadCertificate, PublishTranscript,
                  HandleAcsResult, CoinArrives, Crash, keyVars
  <2>4. CASE UNCHANGED vars
      BY <2>4 DEF vars, keyVars
  <2> QED
      BY <2>1, <2>2, <2>3, <2>4 DEF Next, Step
<1> QED
  BY <1>1, <1>2 DEF TranscriptsStay, KeysStay

\* Transcripts and keys are made once.
THEOREM FormedIsFinalHolds == Spec => FormedIsFinal
    BY NextFormed, Inductive, PTL DEF Spec, FormedIsFinal
-----------------------------------------------------------------------------
(* What LADKG implements, and what it relies on.                           *)

\* ACS as LADKG sees it: given the transcripts, it hands a node that forms its secret
\* key the set it forms it from.
Dealt == {d \in Node : transcripts[d] # {}}
Handed == [p \in Node |-> IF decided_trans[p] # {} THEN acs ELSE {}]

Acs == INSTANCE CommonSubset WITH
    Quorums <- {S \in SUBSET Node : Cardinality(S) >= KeyQuorum},
    offered <- Dealt, output <- Handed

\* Every step has one transcript come out, one secret key or one public key formed,
\* or none of these.
LEMMA OneThing ==
    ASSUME IInv, [Next]_vars
    PROVE  \/ UNCHANGED <<transcripts, decided_trans, th_pk>> /\ acs' = acs
           \/ /\ UNCHANGED <<acs, decided_trans, th_pk>>
              /\ \E p \in Node : Dealt' = Dealt \union {p}
           \/ \E p \in Node : HandleAcsResult(p)
           \/ \E p \in Node, q \in Node : ReceivePubKey(q, p)
<1> USE DEF shareVars, transVars, keyVars, netVars
<1> DEFINE Publishes == /\ UNCHANGED <<acs, decided_trans, th_pk>>
                        /\ \E p \in Node : Dealt' = Dealt \union {p}
           Stays == UNCHANGED <<transcripts, decided_trans, th_pk>> /\ acs' = acs
<1>1. ASSUME NEW p \in Node, NEW q \in Node, ReceiveReply(q, p) PROVE Publishes \/ Stays
    <2> DEFINE cert == certificate[p] \union {q}
    <2>1. \/ transcripts' = transcripts
          \/ transcripts' = [transcripts EXCEPT ![p] = cert]
        BY <1>1 DEF ReceiveReply, Publish
    <2>2. cert # {}
        OBVIOUS
    <2> HIDE DEF cert
    <2>3. transcripts' = transcripts \/ Dealt' = Dealt \union {p}
        BY <2>1, <2>2 DEF Dealt, IInv, TypeOK
    <2> QED
        BY <1>1, <2>3 DEF ReceiveReply
<1>2. ASSUME NEW p \in Node, PublishTranscript(p) PROVE Publishes
    <2>1. snapshot[p] # {} /\ transcripts' = [transcripts EXCEPT ![p] = snapshot[p]]
        BY <1>2 DEF PublishTranscript, Publish
    <2>2. Dealt' = Dealt \union {p}
        BY <2>1 DEF Dealt, IInv, TypeOK
    <2> QED
        BY <1>2, <2>2 DEF PublishTranscript
<1>3. ASSUME NEW p \in Node, NEW q \in Node,
             ReceivePrivateShare(q, p) \/ ReceivePublicShare(q, p)
      PROVE  Stays
    BY <1>3 DEF ReceivePrivateShare, ReceivePublicShare
<1>4. ASSUME NEW p \in Node,
             \/ SharingPhase(p) \/ SharingAgain(p) \/ ReadCertificate(p)
             \/ CoinArrives(p) \/ Crash(p)
      PROVE  Stays
    BY <1>4 DEF SharingPhase, SharingAgain, ReadCertificate, CoinArrives, Crash
<1>5. CASE UNCHANGED vars
    BY <1>5 DEF vars
<1> QED
    BY <1>1, <1>2, <1>3, <1>4, <1>5 DEF Next, Step

\* Keys and handed sets after the output of ACS came to p.
LEMMA OneHanding ==
    ASSUME IInv, NEW p \in Node, HandleAcsResult(p)
    PROVE  /\ UNCHANGED <<transcripts, th_pk>>
           /\ \/ UNCHANGED <<Handed, decided_trans>>
              \/ \E S \in SUBSET Node :
                    /\ S # {} /\ S \subseteq Dealt /\ Cardinality(S) >= KeyQuorum
                    /\ acs' = S /\ acs \in {{}, S}
                    /\ decided_trans[p] = {} /\ Decide(S) # {}
                    /\ decided_trans' = [decided_trans EXCEPT ![p] = Decide(S)]
                    /\ Handed[p] = {} /\ Handed' = [Handed EXCEPT ![p] = S]
                    /\ \A q \in Node : Handed[q] \in {{}, S}
<1>1. UNCHANGED <<transcripts, th_pk>>
    BY DEF HandleAcsResult, transVars
<1>2. PICK S \in SUBSET Node :
         /\ S # {} /\ acs' = S /\ acs \in {{}, S}
         /\ \A d \in S : transcripts[d] # {}
         /\ Cardinality(S) >= KeyQuorum
         /\ decided_trans[p] = {}
         /\ \/ /\ Decide(S) # {}
               /\ decided_trans' = [decided_trans EXCEPT ![p] = Decide(S)]
            \/ UNCHANGED decided_trans
    BY AcsResultDoes DEF IInv
<1>3. \A q \in Node : decided_trans[q] # {} => acs = S
    BY <1>2 DEF IInv, TypeOK, KeyInv
<1>4. CASE UNCHANGED decided_trans
    <2>1. Handed' = Handed
        BY <1>2, <1>3, <1>4 DEF Handed
    <2> QED
        BY <1>1, <1>4, <2>1
<1>5. CASE /\ Decide(S) # {}
           /\ decided_trans' = [decided_trans EXCEPT ![p] = Decide(S)]
    <2>1. decided_trans'[p] # {} /\ \A q \in Node \ {p} : decided_trans'[q] = decided_trans[q]
        BY <1>5 DEF IInv, TypeOK
    <2>2. \A q \in Node : Handed'[q] = IF decided_trans'[q] # {} THEN S ELSE {}
        BY <1>2 DEF Handed
    <2>3. \A q \in Node : Handed[q] = IF decided_trans[q] # {} THEN S ELSE {}
        BY <1>3 DEF Handed
    <2>4. Handed' = [Handed EXCEPT ![p] = S]
        <3>1. \A q \in Node : Handed'[q] = [Handed EXCEPT ![p] = S][q]
            BY <2>1, <2>2, <2>3 DEF Handed
        <3>2. Handed' \in [Node -> SUBSET Node] /\ Handed \in [Node -> SUBSET Node]
            BY <1>2 DEF Handed, IInv, TypeOK
        <3> QED
            BY <3>1, <3>2
    <2>5. S \subseteq Dealt
        BY <1>2 DEF Dealt
    <2> QED
        BY <1>1, <1>2, <1>5, <2>3, <2>4, <2>5
<1> QED
    BY <1>2, <1>4, <1>5

\* What LADKG takes from ACS is what CommonSubset promises, and no more: the steps of
\* ACS that LADKG sees are steps of CommonSubset.
THEOREM TakesCommonSubset == Spec => Acs!Spec
<1>1. Init => Acs!Init
    BY DEF Init, Acs!Init, Dealt, Handed
<1>2. ASSUME IInv, [Next]_vars PROVE [Acs!Next]_(Acs!vars)
    <2>1. CASE UNCHANGED <<transcripts, decided_trans, th_pk>> /\ acs' = acs
        BY <2>1 DEF Acs!vars, Dealt, Handed
    <2>2. ASSUME UNCHANGED <<acs, decided_trans, th_pk>>,
                 NEW p \in Node, Dealt' = Dealt \union {p}
          PROVE  Acs!Next
      <3>1. Handed' = Handed
        BY <2>2 DEF Handed
      <3> QED
        BY <2>2, <3>1 DEF Acs!Next, Acs!Offer
    <2>3. ASSUME NEW p \in Node, HandleAcsResult(p) PROVE [Acs!Next]_(Acs!vars)
      <3>1. Dealt' = Dealt
        BY <1>2, <2>3, OneHanding DEF Dealt
      <3>2. CASE UNCHANGED Handed
        BY <3>1, <3>2 DEF Acs!vars
      <3>3. ASSUME NEW S \in SUBSET Node, S \subseteq Dealt, Cardinality(S) >= KeyQuorum,
                   Handed[p] = {}, Handed' = [Handed EXCEPT ![p] = S],
                   \A q \in Node : Handed[q] \in {{}, S}
            PROVE  Acs!Next
        <4>1. Acs!Deliver(p, S)
            BY <3>1, <3>3 DEF Acs!Deliver
        <4> QED
            BY <3>3, <4>1 DEF Acs!Next
      <3> QED
        BY <1>2, <2>3, <3>2, <3>3, OneHanding
    <2>4. ASSUME NEW p \in Node, NEW q \in Node, ReceivePubKey(q, p)
          PROVE  UNCHANGED Acs!vars
        BY <2>4 DEF ReceivePubKey, transVars, Acs!vars, Dealt, Handed
    <2> QED
        BY <1>2, <2>1, <2>2, <2>3, <2>4, OneThing
<1> QED
    BY <1>1, <1>2, Inductive, PTL DEF Spec, Acs!Spec

\* LADKG implements KeyGeneration, for every number of nodes and of faults, as long as
\* few nodes deal again.
THEOREM GeneratesOneKeyHolds ==
    ASSUME EnoughDealOnce PROVE Spec => GeneratesOneKey
<1> DEFINE Keys == {S \in SUBSET Node : Cardinality(S) = NumFaults + 1}
           Quora == {S \in SUBSET Node : Cardinality(S) >= KeyQuorum}
<1>0. IInv' => OneDealerIsHonest'
    <2>1. IInv => OneDealerIsHonest
        BY KeySize DEF OneDealerIsHonest
    <2> QED
        BY <2>1, PTL
<1>1. Init => KeyGen!Init
    BY DEF Init, KeyGen!Init
<1>2. ASSUME IInv, IInv', [Next]_vars PROVE [KeyGen!Next]_(KeyGen!vars)
    <2> USE DEF Dealt
    <2>1. CASE UNCHANGED <<transcripts, decided_trans, th_pk>>
        BY <2>1 DEF KeyGen!vars
    <2>2. ASSUME UNCHANGED <<acs, decided_trans, th_pk>>,
                 NEW p \in Node, Dealt' = Dealt \union {p}
          PROVE  KeyGen!Next
        BY <2>2 DEF KeyGen!Next, KeyGen!Deal
    <2>3. ASSUME NEW p \in Node, HandleAcsResult(p) PROVE [KeyGen!Next]_(KeyGen!vars)
      <3>1. UNCHANGED <<transcripts, th_pk>>
        BY <1>2, <2>3, OneHanding
      <3>2. CASE UNCHANGED decided_trans
        BY <3>1, <3>2 DEF KeyGen!vars
      <3>3. ASSUME NEW S \in SUBSET Node, S # {}, S \subseteq Dealt, acs \in {{}, S},
                   decided_trans[p] = {}, Decide(S) # {},
                   decided_trans' = [decided_trans EXCEPT ![p] = Decide(S)]
            PROVE  KeyGen!Next
        <4> DEFINE key == Decide(S)
        <4>1. decided_trans'[p] = key /\ key # {}
            BY <1>2, <3>3 DEF IInv, TypeOK
        <4>2. key \in Keys
            BY <1>0, <1>2, <4>1 DEF OneDealerIsHonest, Decide
        <4>3. key \subseteq Dealt
            BY <3>3 DEF Decide
        <4>4. \A q \in Node : decided_trans[q] \in {{}, key}
            BY <1>2, <3>3 DEF IInv, TypeOK, KeyInv
        <4> HIDE DEF key, Keys
        <4>5. KeyGen!FormSecret(p)
            BY <3>1, <3>3, <4>2, <4>3, <4>4 DEF KeyGen!FormSecret, Keys, key
        <4> QED
            BY <4>5 DEF KeyGen!Next
      <3> QED
        BY <1>2, <2>3, <3>2, <3>3, OneHanding
    <2>4. ASSUME NEW p \in Node, NEW q \in Node, ReceivePubKey(q, p)
          PROVE  [KeyGen!Next]_(KeyGen!vars)
      <3>1. UNCHANGED <<transcripts, decided_trans>>
        BY <2>4 DEF ReceivePubKey, transVars
      <3>2. CASE th_pk' = th_pk
        BY <3>1, <3>2 DEF KeyGen!vars
      <3>3. ASSUME th_pk[p] = {}, Cardinality(Keyed) >= KeyQuorum,
                   NEW k \in SUBSET Node, k # {}, th_pk' = [th_pk EXCEPT ![p] = k],
                   \A r \in Keyed : decided_trans[r] = k
            PROVE  KeyGen!Next
        <4>1. {r \in Node : decided_trans[r] = k} = Keyed /\ Keyed \in Quora
            BY <3>3 DEF Keyed
        <4>2. PICK r \in Keyed : TRUE
            <5>1. Cardinality(Keyed) # 0
                BY <3>3, Quorums
            <5> QED
                BY <5>1, FS_EmptySet
        <4>3. k \in Keys
            BY <1>0, <1>2, <3>1, <3>3, <4>2 DEF Keyed, OneDealerIsHonest
        <4>4. KeyGen!FormPublic(p)
            BY <3>1, <3>3, <4>1, <4>3 DEF KeyGen!FormPublic
        <4> QED
            BY <4>4 DEF KeyGen!Next
      <3> QED
        BY <1>2, <2>4, <3>2, <3>3, PubKeyDoes DEF IInv
    <2> QED
        BY <1>2, <2>1, <2>2, <2>3, <2>4, OneThing
<1> QED
    BY <1>0, <1>1, <1>2, Inductive, PTL DEF Spec, GeneratesOneKey, KeyGen!Spec
-----------------------------------------------------------------------------
(* The run as a whole: the syncer, and messages that come twice.           *)

\* The steps of the run as a whole are steps of LADKG or change nothing of it.
LEMMA NextRunsLADKG ==
    ASSUME [DKGNext]_dkgVars PROVE [Next]_vars
<1>1. ASSUME Syncer PROVE UNCHANGED vars
    BY <1>1 DEF Syncer, ReceiveAlive, ReceiveSkComplete, ReceivePkComplete
<1>2. ASSUME NEW p \in Node, NodeStep(p) PROVE Step(p) \/ UNCHANGED vars
    BY <1>2 DEF NodeStep, HandleStart, HandleStop, FormSecretKey, FormPublicKey, Quietly,
                Step
<1>3. ASSUME NEW p \in Node, StopNode(p) PROVE Crash(p)
    BY <1>3 DEF StopNode
<1>4. CASE UNCHANGED dkgVars
    BY <1>4 DEF dkgVars
<1> QED
    BY <1>1, <1>2, <1>3, <1>4 DEF DKGNext, Next

\* The run as a whole is a behaviour of LADKG, so that every theorem about LADKG is
\* one about it.
THEOREM RunsLADKG == DKGSpec => Spec
<1>1. DKGInit => Init
    BY DEF DKGInit
<1> QED
    BY <1>1, NextRunsLADKG, PTL DEF DKGSpec, Spec

\* Reports, in flight and at the syncer, are true; STOP went out on all of them.
ReportsInv ==
    /\ \A p \in skMsgs \union th_sks : decided_trans[p] # {}
    /\ \A m \in pkDoneMsgs : m[2] # {} /\ th_pk[m[1]] = m[2]
    /\ \A p \in Node : th_pks[p] \in {{}, th_pk[p]}
    /\ stopMsgs \union stopped # {} =>
          \A p \in Node : decided_trans[p] # {} /\ th_pk[p] # {}

LEMMA InitReports == DKGInit => DKGTypeOK /\ ReportsInv
    BY DEF DKGInit, DKGTypeOK, ReportsInv

\* Every step keeps the types of the syncer.
LEMMA NextDKGTypeOK ==
    ASSUME TypeOK, TypeOK', DKGTypeOK, [DKGNext]_dkgVars PROVE DKGTypeOK'
<1> USE DEF DKGTypeOK, syncerVars, mailVars, syncVars
<1>1. ASSUME NEW kind \in {"ALIVE", "StartVSS", "SkComplete", "PkComplete"},
             NEW p \in Node, Dispatch(kind, p)
      PROVE  unacknowledged' \subseteq Resent \X Node
    BY <1>1 DEF Dispatch
<1>2. ASSUME NEW p \in Node, ReceiveAlive(p) PROVE DKGTypeOK'
    BY <1>1, <1>2 DEF ReceiveAlive, Conclude
<1>3. ASSUME NEW p \in Node, ReceiveSkComplete(p) PROVE DKGTypeOK'
    BY <1>1, <1>3 DEF ReceiveSkComplete, Conclude
<1>4. ASSUME NEW m \in pkDoneMsgs, ReceivePkComplete(m[1], m[2]) PROVE DKGTypeOK'
    <2>1. m[1] \in Node /\ m[2] \in SUBSET Node
        OBVIOUS
    <2> QED
        BY <1>1, <1>4, <2>1 DEF ReceivePkComplete, Conclude
<1>5. ASSUME NEW p \in Node, HandleStart(p) PROVE DKGTypeOK'
    BY <1>1, <1>5 DEF HandleStart, StartArrived
<1>6. ASSUME NEW p \in Node, HandleStop(p) PROVE DKGTypeOK'
    BY <1>6 DEF HandleStop
<1>7. ASSUME NEW p \in Node, FormSecretKey(p) PROVE DKGTypeOK'
    BY <1>7 DEF FormSecretKey
<1>8. ASSUME NEW p \in Node, NEW q \in Node, FormPublicKey(q, p) PROVE DKGTypeOK'
    BY <1>8 DEF FormPublicKey, TypeOK
<1>9. ASSUME NEW p \in Node, Quietly(p) PROVE DKGTypeOK'
    BY <1>9 DEF Quietly
<1>10. ASSUME NEW p \in Node, StopNode(p) PROVE DKGTypeOK'
    BY <1>10 DEF StopNode
<1>11. CASE UNCHANGED dkgVars
    BY <1>11 DEF dkgVars
<1> QED
    BY <1>2, <1>3, <1>4, <1>5, <1>6, <1>7, <1>8, <1>9, <1>10, <1>11
    DEF DKGNext, Syncer, NodeStep

\* Every step keeps the reports true.
LEMMA NextReports ==
    ASSUME IInv, DKGTypeOK, ReportsInv, [DKGNext]_dkgVars PROVE ReportsInv'
<1> USE DEF syncerVars, mailVars, syncVars
<1>1. \A p \in Node : /\ decided_trans[p] # {} => decided_trans'[p] = decided_trans[p]
                      /\ th_pk[p] # {} => th_pk'[p] = th_pk[p]
    BY NextRunsLADKG, NextFormed
<1>2. \A p \in skMsgs \union th_sks : p \in Node /\ decided_trans'[p] # {}
    BY <1>1 DEF ReportsInv, DKGTypeOK
<1>3. \A m \in pkDoneMsgs : m[1] \in Node /\ m[2] # {} /\ th_pk'[m[1]] = m[2]
    BY <1>1 DEF ReportsInv, DKGTypeOK
<1>4. \A p \in Node : th_pks[p] \in {{}, th_pk'[p]}
    BY <1>1 DEF ReportsInv
<1>5. stopMsgs \union stopped # {} =>
          \A p \in Node : decided_trans'[p] # {} /\ th_pk'[p] # {}
    BY <1>1 DEF ReportsInv
<1>6. ASSUME /\ skMsgs' \subseteq skMsgs /\ th_sks' \subseteq th_sks
             /\ pkDoneMsgs' \subseteq pkDoneMsgs /\ UNCHANGED th_pks
             /\ stopMsgs' \union stopped' # {} => stopMsgs \union stopped # {}
      PROVE  ReportsInv'
    BY <1>2, <1>3, <1>4, <1>5, <1>6 DEF ReportsInv
<1>7. ASSUME UNCHANGED stopped, Conclude,
             \A p \in skMsgs' \union th_sks' : decided_trans'[p] # {},
             \A m \in pkDoneMsgs' : m[2] # {} /\ th_pk'[m[1]] = m[2],
             \A p \in Node : th_pks'[p] \in {{}, th_pk'[p]}
      PROVE  ReportsInv'
    <2>1. AllComplete(th_sks', th_pks') =>
              \A p \in Node : decided_trans'[p] # {} /\ th_pk'[p] # {}
        BY <1>7 DEF AllComplete
    <2>2. stopMsgs' \union stopped' # {} =>
              stopMsgs \union stopped # {} \/ AllComplete(th_sks', th_pks')
        BY <1>7 DEF Conclude
    <2> QED
        BY <1>5, <1>7, <2>1, <2>2 DEF ReportsInv
<1>8. ASSUME NEW p \in Node, ReceiveAlive(p) PROVE ReportsInv'
    BY <1>2, <1>3, <1>4, <1>7, <1>8 DEF ReceiveAlive
<1>9. ASSUME NEW p \in Node, ReceiveSkComplete(p) PROVE ReportsInv'
    BY <1>2, <1>3, <1>4, <1>7, <1>9 DEF ReceiveSkComplete
<1>10. ASSUME NEW m \in pkDoneMsgs, ReceivePkComplete(m[1], m[2]) PROVE ReportsInv'
    <2>1. \A p \in Node : th_pks'[p] \in {{}, th_pk'[p]}
        BY <1>3, <1>4, <1>10 DEF ReceivePkComplete, DKGTypeOK
    <2> QED
        BY <1>2, <1>3, <1>7, <1>10, <2>1 DEF ReceivePkComplete
<1>11. ASSUME NEW p \in Node, HandleStart(p) \/ HandleStop(p) \/ Quietly(p)
       PROVE  ReportsInv'
    BY <1>6, <1>11 DEF HandleStart, HandleStop, Quietly
<1>12. ASSUME NEW p \in Node, FormSecretKey(p) PROVE ReportsInv'
    <2>1. \A q \in skMsgs' \union th_sks' : decided_trans'[q] # {}
        BY <1>2, <1>12 DEF FormSecretKey
    <2> QED
        BY <1>3, <1>4, <1>5, <1>12, <2>1 DEF FormSecretKey, ReportsInv
<1>13. ASSUME NEW p \in Node, NEW q \in Node, FormPublicKey(q, p) PROVE ReportsInv'
    <2>1. \A m \in pkDoneMsgs' : m[2] # {} /\ th_pk'[m[1]] = m[2]
        BY <1>3, <1>13 DEF FormPublicKey
    <2> QED
        BY <1>2, <1>4, <1>5, <1>13, <2>1 DEF FormPublicKey, ReportsInv
<1>14. ASSUME NEW p \in Node, StopNode(p) PROVE ReportsInv'
    BY <1>6, <1>14 DEF StopNode
<1>15. CASE UNCHANGED dkgVars
    BY <1>6, <1>15 DEF dkgVars
<1> QED
    BY <1>8, <1>9, <1>10, <1>11, <1>12, <1>13, <1>14, <1>15 DEF DKGNext, Syncer, NodeStep

LEMMA DKGInductive == DKGSpec => [](IInv /\ DKGTypeOK /\ ReportsInv)
<1>1. DKGSpec => []IInv
    BY RunsLADKG, Inductive, PTL
<1>2. ASSUME IInv, IInv', DKGTypeOK, ReportsInv, [DKGNext]_dkgVars
      PROVE  DKGTypeOK' /\ ReportsInv'
    BY <1>2, NextDKGTypeOK, NextReports DEF IInv
<1> QED
    BY <1>1, <1>2, InitReports, PTL DEF DKGSpec

\* The syncer keeps its types.
THEOREM DKGTypeCorrect == DKGSpec => []DKGTypeOK
    BY DKGInductive, PTL

\* Once STOP is out, every node has its secret key share and the public key of it,
\* whatever was reported twice or late.
THEOREM StopMeansDoneHolds == DKGSpec => []StopMeansDone
<1>1. IInv /\ ReportsInv => StopMeansDone
  <2> SUFFICES ASSUME IInv, ReportsInv, stopMsgs \union stopped # {},
                      NEW p \in Node, NEW q \in Node
               PROVE  th_pk[p] # {} /\ th_pk[p] = decided_trans[q]
    BY DEF StopMeansDone
  <2>1. th_pk[p] # {} /\ decided_trans[q] # {}
    BY DEF ReportsInv
  <2> QED
    BY <2>1, PublicMatches DEF PublicKeyMatches
<1> QED
    BY <1>1, DKGInductive, PTL
-----------------------------------------------------------------------------
(* What Transcript::verify makes certain of, for every transcript, honest or not. *)

\* The nodes a transcript has signatures of, by the numbers of their keys.
Signed(t) == {KeyId(rep) : rep \in Replicas(t)}

\* As many keys signed as nodes did.
LEMMA SignedSize ==
    ASSUME NEW t, CertOnce(t)
    PROVE  /\ IsFiniteSet(Signed(t)) /\ Signed(t) \subseteq SuppleIds
           /\ Cardinality(Signed(t)) = Cardinality(Replicas(t))
<1>1. IsFiniteSet(Replicas(t)) /\ Replicas(t) \subseteq Nat
  <2>1. Replica \subseteq Nat
    BY TranscriptAssumption DEF Replica
  <2>2. IsFiniteSet(Replica)
    BY FS_Interval, TranscriptAssumption DEF Replica
  <2> QED
    BY <2>1, <2>2, FS_Subset DEF CertOnce
<1> DEFINE f == [rep \in Replicas(t) |-> KeyId(rep)]
<1>2. f \in Bijection(Replicas(t), Signed(t))
    BY <1>1 DEF Bijection, Injection, Surjection, IsInjective, Signed, KeyId
<1>3. ExistsBijection(Replicas(t), Signed(t))
    BY <1>2 DEF ExistsBijection
<1>4. Signed(t) \subseteq SuppleIds
    BY <1>1, TranscriptAssumption DEF Signed, SuppleIds, KeyId, CertOnce, Replica
<1> QED
    BY <1>1, <1>3, <1>4, FS_Bijection

\* "Since no overlap and sizes add to n [...] the union automatically covers 1 to n
\* without gaps" (trans.rs:80): the sizes is_id_valid looks at are right exactly when
\* every node is served once.
THEOREM ValidMeansServed ==
    ASSUME NEW t
    PROVE  IsIdValid(t) <=> ServesAll(t)
<1> SUFFICES ASSUME CertOnce(t), SuppleOnce(t)
             PROVE  (/\ ~Overlap(t)
                     /\ Cardinality(Replicas(t)) + Cardinality(Ids(t)) = NumNodes)
                    <=> \A rep \in Replica : (rep \in Replicas(t)) # (KeyId(rep) \in Ids(t))
    BY DEF IsIdValid, ServesAll
<1> DEFINE S == Signed(t)
           I == Ids(t)
<1>1. IsFiniteSet(S) /\ S \subseteq SuppleIds /\ Cardinality(S) = Cardinality(Replicas(t))
    BY SignedSize
<1>2. IsFiniteSet(SuppleIds) /\ Cardinality(SuppleIds) = NumNodes
    BY FS_Interval, TranscriptAssumption DEF SuppleIds
<1>3. IsFiniteSet(I) /\ I \subseteq SuppleIds
    BY <1>2, FS_Subset DEF SuppleOnce
<1>4. Overlap(t) <=> S \cap I # {}
    BY DEF Overlap, Signed
<1>5. \A rep \in Replica : rep \in Replicas(t) <=> KeyId(rep) \in S
    BY TranscriptAssumption DEF Signed, KeyId, Replica, CertOnce
<1>6. SuppleIds = {KeyId(rep) : rep \in Replica}
  <2>1. \A id \in SuppleIds : id - 1 \in Replica /\ id = KeyId(id - 1)
    BY TranscriptAssumption DEF SuppleIds, Replica, KeyId
  <2>2. \A rep \in Replica : KeyId(rep) \in SuppleIds
    BY TranscriptAssumption DEF SuppleIds, Replica, KeyId
  <2> QED
    BY <2>1, <2>2
<1> HIDE DEF S, I
<1>7. ASSUME S \cap I = {}, Cardinality(S) + Cardinality(I) = NumNodes
      PROVE  S \union I = SuppleIds
  <2>1. Cardinality(S \union I) = NumNodes
    <3>1. Cardinality(S \union I) = Cardinality(S) + Cardinality(I) - Cardinality(S \cap I)
        BY <1>1, <1>3, FS_Union
    <3>2. Cardinality(S \cap I) = 0
        BY <1>7, FS_EmptySet
    <3>3. Cardinality(S) \in Nat /\ Cardinality(I) \in Nat
        BY <1>1, <1>3, FS_CardinalityType
    <3> QED
        BY <1>7, <3>1, <3>2, <3>3
  <2> QED
    BY <1>1, <1>2, <1>3, <2>1, FS_Subset
<1>8. ASSUME S \cap I = {}, S \union I = SuppleIds
      PROVE  Cardinality(S) + Cardinality(I) = NumNodes
  <2>1. /\ Cardinality(S \union I) = Cardinality(S) + Cardinality(I) - Cardinality(S \cap I)
        /\ Cardinality(S) \in Nat /\ Cardinality(I) \in Nat
    BY <1>1, <1>3, FS_Union, FS_CardinalityType
  <2>2. Cardinality(S \cap I) = 0
    BY <1>8, FS_EmptySet
  <2> QED
    BY <1>2, <1>8, <2>1, <2>2
<1>9. (\A rep \in Replica : (rep \in Replicas(t)) # (KeyId(rep) \in I))
          <=> S \cap I = {} /\ S \union I = SuppleIds
  <2>1. (\A rep \in Replica : (rep \in Replicas(t)) # (KeyId(rep) \in I))
          <=> \A rep \in Replica : KeyId(rep) \in S <=> KeyId(rep) \notin I
    BY <1>5
  <2>2. @ <=> \A id \in SuppleIds : id \in S <=> id \notin I
    BY <1>6
  <2> QED
    BY <1>1, <1>3, <2>1, <2>2
<1> QED
    BY <1>1, <1>4, <1>7, <1>8, <1>9 DEF I
=============================================================================
