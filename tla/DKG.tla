-------------------------------- MODULE DKG --------------------------------
(***************************************************************************)
(* The run as a whole: the nodes of LADKG and the syncer that starts and   *)
(* ends it (node/syncer.rs).  Every node reports ALIVE; when all have, the *)
(* syncer sends everyone StartVSS.  Nodes report their secret key share    *)
(* (SkComplete) and the public key (PkComplete); when it has all of them,  *)
(* the syncer sends everyone STOP.                                         *)
(*                                                                         *)
(* The sender of the network crate (not in this repository) sends again    *)
(* what was not acknowledged, and both sync_handler.rs forward a message   *)
(* before they acknowledge it, so that a message to or from the syncer may *)
(* arrive twice.  `Resent` names the kinds of messages that may.           *)
(***************************************************************************)
EXTENDS LADKG

CONSTANTS
    Resent,         \* the kinds of messages whose acknowledgement may be lost
    MaxResends      \* how many are

ASSUME DKGAssumption ==
    /\ Resent \subseteq {"ALIVE", "StartVSS", "SkComplete", "PkComplete"}
    /\ MaxResends \in Nat
    /\ Dealers = Node
    /\ Resent \cap {"ALIVE", "StartVSS"} # {} => Again = Node

VARIABLES
    alive,           \* the syncer's: nodes whose ALIVE it has
    th_sks,          \*   nodes whose SkComplete it has
    th_pks,          \*   th_pks[p]: the key of p's PkComplete, {} before
    unacknowledged,  \* kinds and nodes of a message that was sent again
    aliveMsgs, skMsgs,    \* nodes with ALIVE, with SkComplete in flight
    pkDoneMsgs,           \* PkComplete in flight, as <<node, key>>
    startMsgs,       \* startMsgs[p]: how many StartVSS are in flight to p
    stopMsgs,        \* nodes with STOP in flight to them
    stopped          \* nodes that have heard STOP

syncerVars == <<alive, th_sks, th_pks, unacknowledged>>
mailVars   == <<aliveMsgs, skMsgs, pkDoneMsgs, startMsgs, stopMsgs>>
syncVars   == <<syncerVars, mailVars, stopped>>
dkgVars    == <<vars, syncVars>>

\* Every node's run loop begins with ALIVE.
DKGInit ==
    /\ Init
    /\ alive = {} /\ th_sks = {} /\ th_pks = [p \in Node |-> {}]
    /\ unacknowledged = {}
    /\ aliveMsgs = Node /\ skMsgs = {} /\ pkDoneMsgs = {}
    /\ startMsgs = [p \in Node |-> 0]
    /\ stopMsgs = {} /\ stopped = {}
-----------------------------------------------------------------------------
(* The syncer.                                                             *)

\* dispatch: the message is handed over and, unless the acknowledgement is lost and
\* it comes once more, gone.
Dispatch(kind, p) ==
    \/ unacknowledged' = unacknowledged
    \/ /\ kind \in Resent /\ <<kind, p>> \notin unacknowledged
       /\ Cardinality(unacknowledged) < MaxResends
       /\ unacknowledged' = unacknowledged \union {<<kind, p>>}
IsResent == unacknowledged' # unacknowledged

\* All nodes have reported both keys.
AllPublic(sks, pks) == \A p \in Node : pks[p] # {}
AllComplete(sks, pks) == sks = Node /\ \A p \in Node : pks[p] # {}

\* Every message that finds both tables full has STOP sent, also a late or repeated
\* one.
ConcludeEarly ==
    stopMsgs' = IF AllComplete(th_sks, th_pks) THEN stopMsgs \union Node ELSE stopMsgs
Conclude ==
    stopMsgs' = IF AllComplete(th_sks', th_pks') THEN stopMsgs \union Node ELSE stopMsgs

\* ALIVE: whenever all are alive, StartVSS goes out.
ReceiveAlive(p) ==
    /\ p \in aliveMsgs
    /\ Dispatch("ALIVE", p)
    /\ aliveMsgs' = IF IsResent THEN aliveMsgs ELSE aliveMsgs \ {p}
    /\ alive' = alive \union {p}
    /\ startMsgs' = IF alive' = Node THEN [q \in Node |-> startMsgs[q] + 1]
                                     ELSE startMsgs
    /\ UNCHANGED <<vars, th_sks, th_pks, skMsgs, pkDoneMsgs, stopped>>
    /\ Conclude

\* SkComplete.
ReceiveSkComplete(p) ==
    /\ p \in skMsgs
    /\ Dispatch("SkComplete", p)
    /\ skMsgs' = IF IsResent THEN skMsgs ELSE skMsgs \ {p}
    /\ th_sks' = th_sks \union {p}
    /\ UNCHANGED <<vars, alive, th_pks, aliveMsgs, pkDoneMsgs, startMsgs, stopped>>
    /\ Conclude

\* PkComplete: a node's last report counts.
ReceivePkComplete(p, key) ==
    /\ <<p, key>> \in pkDoneMsgs
    /\ Dispatch("PkComplete", p)
    /\ pkDoneMsgs' = IF IsResent THEN pkDoneMsgs ELSE pkDoneMsgs \ {<<p, key>>}
    /\ th_pks' = [th_pks EXCEPT ![p] = key]
    /\ UNCHANGED <<vars, alive, th_sks, aliveMsgs, skMsgs, startMsgs, stopped>>
    /\ Conclude

Syncer ==
    \/ \E p \in Node : ReceiveAlive(p) \/ ReceiveSkComplete(p)
    \/ \E m \in pkDoneMsgs : ReceivePkComplete(m[1], m[2])
-----------------------------------------------------------------------------
(* The nodes.                                                              *)

\* A StartVSS has come.
StartArrivedAlways(p) == TRUE
StartArrived(p) == startMsgs[p] > 0

\* StartVSS: the first makes a node deal, any other deal again.
HandleStart(p) ==
    /\ StartArrived(p) /\ Running(p)
    /\ Dispatch("StartVSS", p)
    /\ startMsgs' = IF IsResent THEN startMsgs ELSE [startMsgs EXCEPT ![p] = @ - 1]
    /\ SharingPhase(p) \/ SharingAgain(p)
    /\ UNCHANGED <<alive, th_sks, th_pks, aliveMsgs, skMsgs, pkDoneMsgs, stopMsgs,
                   stopped>>

\* STOP is logged, and changes nothing.
HandleStop(p) ==
    /\ p \in stopMsgs /\ Running(p)
    /\ stopMsgs' = stopMsgs \ {p}
    /\ stopped' = stopped \union {p}
    /\ UNCHANGED <<vars, syncerVars, aliveMsgs, skMsgs, pkDoneMsgs, startMsgs>>

\* handle_acs_result reports the secret key it has formed, before it waits for the
\* coin.
FormSecretKey(p) ==
    /\ HandleAcsResult(p)
    /\ skMsgs' = IF decided_trans'[p] # {} THEN skMsgs \union {p} ELSE skMsgs
    /\ UNCHANGED <<syncerVars, aliveMsgs, pkDoneMsgs, startMsgs, stopMsgs, stopped>>

\* DKGPubKey: the public key is reported when it is rebuilt.
FormPublicKey(q, p) ==
    /\ ReceivePubKey(q, p)
    /\ pkDoneMsgs' = IF th_pk[p] = {} /\ th_pk'[p] # {}
                     THEN pkDoneMsgs \union {<<p, th_pk'[p]>>} ELSE pkDoneMsgs
    /\ UNCHANGED <<syncerVars, aliveMsgs, skMsgs, startMsgs, stopMsgs, stopped>>

\* The rest of LADKG tells the syncer nothing.
Quietly(p) ==
    /\ \/ ReadCertificate(p) \/ PublishTranscript(p) \/ CoinArrives(p)
       \/ \E q \in Node : \/ ReceivePrivateShare(q, p) \/ ReceivePublicShare(q, p)
                          \/ ReceiveReply(q, p)
    /\ UNCHANGED syncVars

NodeStep(p) ==
    \/ HandleStart(p) \/ HandleStop(p) \/ FormSecretKey(p) \/ Quietly(p)
    \/ \E q \in Node : FormPublicKey(q, p)

\* What a node that stops had not yet reported may be lost.
StopNode(p) ==
    /\ Crash(p)
    /\ aliveMsgs' \in {aliveMsgs, aliveMsgs \ {p}}
    /\ skMsgs' \in {skMsgs, skMsgs \ {p}}
    /\ pkDoneMsgs' \in {pkDoneMsgs, {m \in pkDoneMsgs : m[1] # p}}
    /\ UNCHANGED <<syncerVars, startMsgs, stopMsgs, stopped>>

DKGNext == Syncer \/ \E p \in Node : NodeStep(p) \/ StopNode(p)

DKGSpec == DKGInit /\ [][DKGNext]_dkgVars

\* Messages arrive, ACS and the coin deliver, the countdown ends: each node and the
\* syncer keep taking what there is to take.
DKGFairSpec ==
    DKGSpec /\ WF_dkgVars(Syncer) /\ \A p \in Node : WF_dkgVars(NodeStep(p))
-----------------------------------------------------------------------------
(* Properties.                                                             *)

DKGTypeOK ==
    /\ alive \subseteq Node /\ th_sks \subseteq Node
    /\ th_pks \in [Node -> SUBSET Node]
    /\ unacknowledged \subseteq Resent \X Node
    /\ aliveMsgs \subseteq Node /\ skMsgs \subseteq Node
    /\ pkDoneMsgs \subseteq Node \X SUBSET Node
    /\ startMsgs \in [Node -> Nat]
    /\ stopMsgs \subseteq Node /\ stopped \subseteq Node

\* STOP means what the syncer logs, that all nodes completed the protocol with one
\* threshold key: when the first STOP is sent, every node has its share of the secret
\* key and the public key of it.
StopMeansDone ==
    stopMsgs \union stopped # {} =>
        \A p \in Node, q \in Node : th_pk[p] # {} /\ th_pk[p] = decided_trans[q]

\* Once all nodes have reported ALIVE, every node that stays up gets both keys, unless
\* StartVSS went out twice.
StartedRunsEnd ==
    [](reshared = {}) =>
        (alive = Node ~>
            \A p \in Node : p \in crashed \/ (decided_trans[p] # {} /\ th_pk[p] # {}))

\* Without crashes, and without a second StartVSS, every node hears STOP.
AllHearStop == [](crashed = {} /\ reshared = {}) => <>(stopped = Node)
=============================================================================
