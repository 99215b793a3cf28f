------------------------------ MODULE MCLADKG ------------------------------
(***************************************************************************)
(* Instances of LADKG for TLC, with a scheduler that bounds the            *)
(* interleavings: prompt nodes take the coin and handle their messages at  *)
(* once, and all but the greatest publish at once; and, on the transcripts *)
(* these runs make, what LADKG takes of Transcript.                        *)
(***************************************************************************)
EXTENDS LADKG, Transcript, SequencesExt, TLC

CONSTANTS Prompt,    \* the nodes whose messages are never delayed
          MayStop    \* the nodes that may crash

Four == 0 .. 3

OneBad  == {<<0, 3>>}

Mail(p) ==
    {m \in privMsgs \union pubMsgs \union replyMsgs \union pkMsgs : m[2] = p}

Least(S) == {x \in S : \A y \in S : x <= y}
Greatest(S) == {x \in S : \A y \in S : x >= y}

\* The messages of a prompt node, by sender.
Handle(p) ==
    \E q \in Least({m[1] : m \in Mail(p)}) :
        \/ ReceivePrivateShare(q, p) \/ ReceivePublicShare(q, p)
        \/ ReceiveReply(q, p) \/ ReceivePubKey(q, p)

PromptStep ==
    LET busy  == {p \in Prompt : Running(p) /\ Mail(p) # {}}
        begin == {p \in Prompt \cap (Dealers \ shared) : Running(p)}
        late  == {p \in Prompt \ crashed :
                     \/ p \in awaiting_coin
                     \/ p \notin Greatest(Prompt) /\ snapshot[p] # {}}
    IN  \/ \E p \in Least(busy) : Handle(p)
        \/ busy = {} /\ \E p \in Least(begin) : SharingPhase(p)
        \/ /\ busy = {} /\ begin = {}
           /\ \E p \in Least(late) : PublishTranscript(p) \/ CoinArrives(p)
        \/ busy = {} /\ begin = {} /\ late = {} /\ \E p \in Node : Step(p)

\* Every behaviour of PromptSpec is one of Spec.
PromptSpec == Init /\ [][PromptStep \/ \E p \in MayStop : Crash(p)]_vars
-----------------------------------------------------------------------------
\* The transcript that node ids cert signed, with the signatures and supplementary shares
\* themselves: a table, since there are few.
SentBy ==
    [cert \in SUBSET Node, fits \in BOOLEAN |->
        LET list == SetToSeq(cert)
        IN  GenTranscript([i \in DOMAIN list |-> [rep |-> list[i], valid |-> TRUE]],
                          [i \in 1 .. NumNodes |-> [id |-> i, fits |-> fits]],
                          1 .. NumNodes)]

SentIds  == [c \in SUBSET Node, f \in BOOLEAN |-> Ids(SentBy[c, f])]
SentGood == [c \in SUBSET Node, f \in BOOLEAN |-> Verify(SentBy[c, f])]

\* "transformed replicas (rep + 1) should not intersect with ids" (trans.rs:69): nodes
\* are numbered from 0 and shares from 1, and what one node makes another must find
\* complete. A transcript is made with a supplementary share for just the nodes LADKG
\* says, and passes Transcript::verify just if LADKG says so.
VerifiesAsSaid(d) ==
    /\ SentIds[transcripts[d], d \notin unfit] = {KeyId(rep) : rep \in supple_shares[d]}
    /\ SentGood[transcripts[d], d \notin unfit] <=> Verifies(d)

VerifiesAsSent ==
    [][\A d \in Node : transcripts'[d] # transcripts[d] => VerifiesAsSaid(d)']_vars
=============================================================================
