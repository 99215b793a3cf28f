------------------------------- MODULE MCDKG -------------------------------
(***************************************************************************)
(* Instances of DKG for TLC, scheduled like those of MCLADKG: the syncer   *)
(* takes ALIVE at once, then prompt nodes take StartVSS and their          *)
(* messages.                                                               *)
(***************************************************************************)
EXTENDS DKG, TLC

CONSTANTS Prompt,    \* the nodes whose messages are never delayed
          MayStop    \* the nodes that may crash

Four == 0 .. 3
NoneBad == {}

Mail(p) ==
    {m \in privMsgs \union pubMsgs \union replyMsgs \union pkMsgs : m[2] = p}

Least(S) == {x \in S : \A y \in S : x <= y}

\* The messages of a prompt node, by sender.
Handle(p) ==
    \E q \in Least({m[1] : m \in Mail(p)}) :
        \/ ReceivePrivateShare(q, p) /\ UNCHANGED syncVars
        \/ ReceivePublicShare(q, p) /\ UNCHANGED syncVars
        \/ ReceiveReply(q, p) /\ UNCHANGED syncVars
        \/ FormPublicKey(q, p)

\* What p reports to the syncer, and the syncer's STOP to p.
Report(p) ==
    \/ ReceiveAlive(p) \/ ReceiveSkComplete(p) \/ HandleStop(p)
    \/ \E m \in pkDoneMsgs : m[1] = p /\ ReceivePkComplete(p, m[2])

PromptStep ==
    LET others == Prompt \ Least(Prompt)
        early  == (Prompt \cap aliveMsgs) \union
                  {p \in others : \/ p \in skMsgs
                                  \/ p \in stopMsgs /\ Running(p)
                                  \/ \E m \in pkDoneMsgs : m[1] = p}
        begin  == {p \in Prompt : Running(p) /\ startMsgs[p] > 0}
        busy   == {p \in Prompt : Running(p) /\ Mail(p) # {}}
        late   == {p \in Prompt \ crashed :
                      \/ p \in awaiting_coin
                      \/ p \in others /\ (p \in sleeping \/ snapshot[p] # {})}
        dealt  == {d \in Node : transcripts[d] # {}}
        key    == {p \in others \ MayStop : /\ Cardinality(dealt) >= KeyQuorum
                                            /\ Running(p) /\ decided_trans[p] = {}}
    IN  \/ \E p \in Least(early) : Report(p)
        \/ early = {} /\ \E p \in Least(begin) : HandleStart(p)
        \/ /\ early = {} /\ begin = {} /\ \E p \in Least(busy) : Handle(p)
        \/ /\ early = {} /\ begin = {} /\ busy = {}
           /\ \E p \in Least(late) :
                  \/ ReadCertificate(p) \/ PublishTranscript(p) \/ CoinArrives(p)
           /\ UNCHANGED syncVars
        \/ /\ early = {} /\ begin = {} /\ busy = {} /\ late = {}
           /\ \E p \in Least(key) : FormSecretKey(p)
        \/ /\ early = {} /\ begin = {} /\ busy = {} /\ late = {} /\ key = {}
           /\ Syncer \/ \E p \in Node : NodeStep(p)

\* Every behaviour of PromptSpec is one of DKGSpec; as every step uses something up,
\* fairness of the scheduler as a whole runs everyone to the end.
PromptSpec == DKGInit /\ [][PromptStep \/ \E p \in MayStop : StopNode(p)]_dkgVars
PromptFairSpec == PromptSpec /\ WF_dkgVars(PromptStep)
=============================================================================
