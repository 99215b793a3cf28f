----------------------------- MODULE Transcript -----------------------------
(***************************************************************************)
(* A transcript as it is made (gen_transcript, ladkg, node/context.rs) and *)
(* checked (types, msg/dkg/trans.rs).  Nodes are numbered from 0, the keys *)
(* and the shares of a sharing from 1.  A signature is valid or not, and a *)
(* supplementary share fits the public share or does not; the keys of all  *)
(* nodes are in every configuration.                                       *)
(***************************************************************************)
EXTENDS Naturals, Sequences, FiniteSets

CONSTANT NumNodes

ASSUME TranscriptAssumption == NumNodes \in Nat

Replica == 0 .. NumNodes - 1
SuppleIdsFromZero == 0 .. NumNodes - 1
SuppleIds == 1 .. NumNodes

\* The number of the key and of the share of a node.
KeyId(rep) == rep + 1

Replicas(t) == {t.cert[i].rep : i \in DOMAIN t.cert}
Ids(t)      == {t.supple_shares[i].id : i \in DOMAIN t.supple_shares}

\* Both loops insert into a set and give up at what is there already.
CertOnce(t) ==
    /\ Replicas(t) \subseteq Replica
    /\ \A i, j \in DOMAIN t.cert : t.cert[i].rep = t.cert[j].rep => i = j

SuppleOnce(t) ==
    /\ Ids(t) \subseteq SuppleIds
    /\ \A i, j \in DOMAIN t.supple_shares :
          t.supple_shares[i].id = t.supple_shares[j].id => i = j

Overlap(t) == \E rep \in Replicas(t) : KeyId(rep) \in Ids(t)

IsIdValid(t) ==
    /\ CertOnce(t) /\ SuppleOnce(t)
    /\ ~Overlap(t)
    /\ Cardinality(Replicas(t)) + Cardinality(Ids(t)) = NumNodes

\* u_vec: what the public share tells each share by.
Verify(t) ==
    /\ IsIdValid(t)
    /\ \A i \in DOMAIN t.cert : KeyId(t.cert[i].rep) \in SuppleIds /\ t.cert[i].valid
    /\ \A i \in DOMAIN t.supple_shares :
          t.supple_shares[i].id \in t.u_vec /\ t.supple_shares[i].fits
-----------------------------------------------------------------------------
FindMissingReplicas(cert) == Replica \ {cert[i].rep : i \in DOMAIN cert}

\* What gen_transcript makes of a certificate and of the ciphers of the store.
GenTranscript(cert, ciphers, u_vec) ==
    LET missing_set == {KeyId(rep) : rep \in FindMissingReplicas(cert)}
    IN  [cert          |-> cert,
         supple_shares |-> SelectSeq(ciphers, LAMBDA c : c.id \in missing_set),
         u_vec         |-> u_vec]

\* What the checks of is_id_valid are for: every node is served once, by a signature
\* that stands for its share or by a supplementary share.
ServesAll(t) ==
    /\ CertOnce(t) /\ SuppleOnce(t)
    /\ \A rep \in Replica : (rep \in Replicas(t)) # (KeyId(rep) \in Ids(t))
=============================================================================
