----------------------------- MODULE AACSProofs -----------------------------
(***************************************************************************)
(* Theorems about AACS, for every set of nodes, fault bound and number of  *)
(* leaders: its type invariant, the size of outputs, that decided sets are *)
(* held, that it takes no more of an instance of Delphi than Outcome and,  *)
(* when the results of an instance fall on one side everywhere, agreement, *)
(* the existence of a decision, and that it implements CommonSubset.       *)
(***************************************************************************)
EXTENDS AACS, FiniteSetTheorems, TLAPS

\* There are kappa leaders, and only they have index sets and instances.
LeadersInv ==
    /\ Cardinality(leaders) = Kappa
    /\ \A m \in indexMsgs : m.from \in leaders
    /\ \A p \in Node, l \in Node :
          (indices_buffer[p][l] # {} \/ delphi_joined[p][l] # "no") => l \in leaders
    /\ \A p \in Node : delphi_terminated[p] \subseteq leaders
    /\ \A p \in Node : indices_decided[p] \subseteq delphi_terminated[p]

\* A leader proposes once: whatever index sets of it exist are the same.
ProposalInv ==
    /\ \A m \in indexMsgs, k \in indexMsgs : m.from = k.from => m.indices = k.indices
    /\ \A m \in indexMsgs, p \in Node :
          indices_buffer[p][m.from] # {} => indices_buffer[p][m.from] = m.indices
    /\ \A p \in Node, q \in Node, l \in Node :
          (indices_buffer[p][l] # {} /\ indices_buffer[q][l] # {})
             => indices_buffer[p][l] = indices_buffer[q][l]
    /\ \A l \in Node \ indices_broadcasted :
          /\ \A m \in indexMsgs : m.from # l
          /\ \A p \in Node : indices_buffer[p][l] = {}

\* One instance ends on the same side at all nodes.
SideInv ==
    \A p \in Node, q \in Node :
        \A l \in delphi_terminated[p] \cap delphi_terminated[q] :
            l \in indices_decided[p] <=> l \in indices_decided[q]

\* What a final set is made of, and that the result is the final set.
FinalOf(p) == UNION {indices_buffer[p][l] : l \in indices_decided[p]}

FinalInv ==
    \A p \in Node :
        /\ final_set[p] # {} =>
              /\ delphi_terminated[p] = leaders
              /\ \A l \in indices_decided[p] : indices_buffer[p][l] # {}
              /\ final_set[p] = FinalOf(p)
        /\ result[p] # {} => result[p] = final_set[p]

\* Low values enter an instance only after a high decision somewhere, and a low
\* end of an instance comes from a low value.
LowInv ==
    /\ \A q \in Node, l \in Node : delphi_joined[q][l] = "low" =>
          \E r \in Node : indices_decided[r] # {}
    /\ \A p \in Node : \A l \in delphi_terminated[p] \ indices_decided[p] :
          \E q \in Node : delphi_joined[q][l] = "low"

\* Index sets have n - f members, high joiners hold the set they joined for, high
\* ends of an instance come from a high value, and an output is held.
HeldInv ==
    \A p \in Node :
        /\ \A l \in Node : indices_buffer[p][l] # {}
                              => Cardinality(indices_buffer[p][l]) = Quorum
        /\ \A l \in Node : delphi_joined[p][l] = "high" =>
              /\ indices_buffer[p][l] # {}
              /\ indices_buffer[p][l] \subseteq trans_buffer[p]
        /\ \A l \in indices_decided[p] : \E q \in Node : delphi_joined[q][l] = "high"
        /\ result[p] \subseteq trans_buffer[p]

\* The invariant that holds whatever Delphi returns, and the one for SameSide.
BaseInv == TypeOK /\ LeadersInv /\ ProposalInv /\ FinalInv /\ LowInv /\ HeldInv

IInv == BaseInv /\ SideInv
-----------------------------------------------------------------------------
\* A set of leaders as large as kappa holds all of them.
LEMMA AllLeaders ==
    ASSUME TypeOK, Cardinality(leaders) = Kappa,
           NEW S, S \subseteq leaders, Cardinality(S) >= Kappa
    PROVE  S = leaders
<1>1. IsFiniteSet(leaders)
    BY FS_Subset, AACSAssumption DEF TypeOK
<1>2. /\ IsFiniteSet(S) /\ Cardinality(S) <= Cardinality(leaders)
      /\ Cardinality(S) = Cardinality(leaders) => S = leaders
    BY <1>1, FS_Subset
<1>3. Cardinality(S) \in Nat /\ Cardinality(leaders) \in Nat
    BY <1>1, <1>2, FS_CardinalityType
<1> QED
    BY <1>2, <1>3

\* The initial states are well typed.
LEMMA InitTypeOK == Init => TypeOK
    BY DEF SelectSet, Init, TypeOK

\* check_termination_condition leaves the final sets and results well typed.
LEMMA CheckTerminationTypes ==
    ASSUME TypeOK, NEW p \in Node, NEW term, NEW dec \in SUBSET Node,
           NEW idx \in [Node -> SUBSET Node], CheckTermination(p, term, dec, idx)
    PROVE  final_set' \in [Node -> SUBSET Node] /\ result' \in [Node -> SUBSET Node]
<1> DEFINE set == UNION {idx[l] : l \in dec}
<1>1. set \in SUBSET Node
    OBVIOUS
<1>2. final_set \in [Node -> SUBSET Node] /\ result \in [Node -> SUBSET Node]
    BY DEF TypeOK
<1>3. \/ UNCHANGED <<final_set, result>>
      \/ /\ final_set' = [final_set EXCEPT ![p] = set]
         /\ result' \in {result, [result EXCEPT ![p] = set]}
    BY DEF CheckTermination, CheckFinalSet
<1> HIDE DEF set
<1> QED
    BY <1>1, <1>2, <1>3

\* Every step keeps the types.
LEMMA NextTypeOK == TypeOK /\ [Next]_vars => TypeOK'
<1> SUFFICES ASSUME TypeOK, [Next]_vars PROVE TypeOK'
    OBVIOUS
<1>1. ASSUME NEW p \in Node, ShareTranscript(p) PROVE TypeOK'
    BY <1>1 DEF Broadcast, TypeOK, ShareTranscript, delphiVars
<1>2. ASSUME NEW p \in Node, NEW q \in Node, ReceiveTranscript(q, p) PROVE TypeOK'
    <2> DEFINE buf == trans_buffer[p] \union {q}
    <2>1. buf \subseteq Node
        BY <1>2 DEF TypeOK
    <2>2. indices_broadcasted' \subseteq Node
          /\ indexMsgs' \subseteq [from : Node, to : Node,
                                 indices : {S \in SUBSET Node : Cardinality(S) = Quorum}]
      <3>1. CASE MayPropose(p, buf)
        <4>1. buf \in {S \in SUBSET Node : Cardinality(S) = Quorum}
            BY <2>1, <3>1 DEF MayPropose
        <4>2. /\ indices_broadcasted' = indices_broadcasted \union {p}
              /\ indexMsgs' = indexMsgs \union {IndexMsg(p, r, buf) : r \in Node}
            BY <1>2, <3>1 DEF ReceiveTranscript
        <4> HIDE DEF buf
        <4> QED
            BY <4>1, <4>2 DEF TypeOK, IndexMsg
      <3>2. CASE ~MayPropose(p, buf)
        BY <1>2, <3>2 DEF TypeOK, ReceiveTranscript
      <3> QED
        BY <3>1, <3>2
    <2>3. delphi_joined' \in [Node -> [Node -> {"no", "high", "low"}]]
        BY <1>2 DEF TypeOK, ReceiveTranscript, JoinValue
    <2>4. result' \in [Node -> SUBSET Node]
        BY <1>2, <2>1 DEF TypeOK, ReceiveTranscript, CheckFinalSet
    <2> QED
        BY <1>2, <2>1, <2>2, <2>3, <2>4 DEF TypeOK, ReceiveTranscript, delphiVars
<1>3. ASSUME NEW m \in indexMsgs, ReceiveIndexSet(m) PROVE TypeOK'
    <2> DEFINE idx == [indices_buffer[m.to] EXCEPT ![m.from] = m.indices]
    <2>1. m.from \in Node /\ m.to \in Node /\ m.indices \subseteq Node
        BY DEF TypeOK
    <2>2. idx \in [Node -> SUBSET Node]
        BY <2>1 DEF TypeOK
    <2>3. indices_buffer' \in {indices_buffer, [indices_buffer EXCEPT ![m.to] = idx]}
        BY <1>3 DEF ReceiveIndexSet
    <2>4. indices_buffer' \in [Node -> [Node -> SUBSET Node]]
        BY <2>1, <2>2, <2>3 DEF TypeOK
    <2>5. delphi_joined' \in [Node -> [Node -> {"no", "high", "low"}]]
      <3> DEFINE row == [delphi_joined[m.to] EXCEPT
                            ![m.from] = JoinValue(m.indices, trans_buffer[m.to])]
      <3>1. row \in [Node -> {"no", "high", "low"}]
        BY <2>1 DEF TypeOK, JoinValue
      <3>2. delphi_joined' \in {delphi_joined, [delphi_joined EXCEPT ![m.to] = row]}
        BY <1>3 DEF ReceiveIndexSet
      <3> HIDE DEF row
      <3> QED
        BY <2>1, <3>1, <3>2 DEF TypeOK
    <2>6. final_set' \in [Node -> SUBSET Node] /\ result' \in [Node -> SUBSET Node]
      <3>1. CASE Dropped(m)
        BY <1>3, <3>1 DEF TypeOK, ReceiveIndexSet
      <3>2. CASE ~Dropped(m)
        <4>1. CheckTermination(m.to, delphi_terminated[m.to], indices_decided[m.to], idx)
            BY <1>3, <3>2 DEF ReceiveIndexSet
        <4>2. indices_decided[m.to] \in SUBSET Node
            BY <2>1 DEF TypeOK
        <4> HIDE DEF idx
        <4> QED
            BY <2>1, <2>2, <4>1, <4>2, CheckTerminationTypes
      <3> QED
        BY <3>1, <3>2
    <2> QED
        BY <1>3, <2>4, <2>5, <2>6 DEF TypeOK, ReceiveIndexSet, delphiVars
<1>4. ASSUME NEW l \in Node, NEW p \in Node, NEW high \in BOOLEAN,
             HandleDelphiResult(l, p, high)
      PROVE  TypeOK'
    <2>1. delphi_terminated' \in [Node -> SUBSET Node]
          /\ indices_decided' \in [Node -> SUBSET Node]
        BY <1>4 DEF TypeOK, HandleDelphiResult
    <2>2. delphi_joined' \in [Node -> [Node -> {"no", "high", "low"}]]
        BY <1>4 DEF TypeOK, HandleDelphiResult
    <2>3. final_set' \in [Node -> SUBSET Node] /\ result' \in [Node -> SUBSET Node]
        BY <1>4, CheckTerminationTypes DEF TypeOK, HandleDelphiResult
    <2> QED
        BY <1>4, <2>1, <2>2, <2>3 DEF TypeOK, HandleDelphiResult
<1>5. ASSUME NEW p \in Node, Crash(p) PROVE TypeOK'
    BY <1>5 DEF TypeOK, Crash, delphiVars
<1>6. CASE UNCHANGED vars
    BY <1>6 DEF TypeOK, vars, delphiVars
<1> QED
    BY <1>1, <1>2, <1>3, <1>4, <1>5, <1>6 DEF Next, Step

\* AACS keeps its types in every behaviour.
THEOREM TypeCorrect == Spec => []TypeOK
    BY InitTypeOK, NextTypeOK, PTL DEF Spec
-----------------------------------------------------------------------------
\* What a step may never take back: transcripts, joins, results of instances, high
\* decisions, and the output.
Grow ==
    \A p \in Node :
        /\ trans_buffer[p] \subseteq trans_buffer'[p]
        /\ delphi_terminated[p] \subseteq delphi_terminated'[p]
        /\ indices_decided[p] \subseteq indices_decided'[p]
        /\ result[p] # {} => result'[p] = result[p]
        /\ \A l \in Node : delphi_joined[p][l] # "no"
                              => delphi_joined'[p][l] = delphi_joined[p][l]

\* What check_termination_condition may do to a final set and an output.
LEMMA CheckTerminationDoes ==
    ASSUME TypeOK, NEW p \in Node, NEW term, NEW dec, NEW idx,
           CheckTermination(p, term, dec, idx)
    PROVE  \A q \in Node :
              \/ final_set'[q] = final_set[q] /\ result'[q] = result[q]
              \/ /\ q = p
                 /\ Cardinality(term) >= Kappa /\ \A l \in dec : idx[l] # {}
                 /\ final_set'[q] = UNION {idx[l] : l \in dec}
                 /\ \/ result'[q] = result[q]
                    \/ /\ result[q] = {} /\ result'[q] = final_set'[q]
                       /\ result'[q] \subseteq trans_buffer[q]
<1> DEFINE set == UNION {idx[l] : l \in dec}
<1>1. CASE UNCHANGED <<final_set, result>>
    BY <1>1
<1>2. CASE /\ Cardinality(term) >= Kappa /\ \A l \in dec : idx[l] # {}
           /\ final_set' = [final_set EXCEPT ![p] = set]
           /\ CheckFinalSet(p, set, trans_buffer[p])
    <2> HIDE DEF set
    <2>1. \/ result' = result
          \/ /\ result[p] = {} /\ set \subseteq trans_buffer[p]
             /\ result' = [result EXCEPT ![p] = set]
        BY <1>2 DEF CheckFinalSet, Complete
    <2>2. \A q \in Node :
              \/ final_set'[q] = final_set[q] /\ result'[q] = result[q]
              \/ /\ q = p /\ final_set'[q] = set
                 /\ \/ result'[q] = result[q]
                    \/ /\ result[q] = {} /\ result'[q] = set
                       /\ set \subseteq trans_buffer[q]
        BY <1>2, <2>1 DEF TypeOK
    <2> QED
        BY <1>2, <2>2 DEF set
<1> QED
    BY <1>1, <1>2 DEF CheckTermination, AllEnded

\* An index set that is not dropped joins at most the instance of its sender.
LEMMA IndexSetJoins ==
    ASSUME TypeOK, NEW m \in indexMsgs, ReceiveIndexSet(m)
    PROVE  /\ m.from \in Node /\ m.to \in Node
           /\ \A p \in Node, l \in Node :
                 \/ delphi_joined'[p][l] = delphi_joined[p][l]
                 \/ /\ p = m.to /\ l = m.from /\ ~Dropped(m)
                    /\ delphi_joined[p][l] = "no" /\ delphi_joined'[p][l] = "high"
                    /\ m.indices \subseteq trans_buffer[p]
<1>1. m.from \in Node /\ m.to \in Node
    BY DEF TypeOK
<1> DEFINE v == JoinValue(m.indices, trans_buffer[m.to])
           row == [delphi_joined[m.to] EXCEPT ![m.from] = v]
<1>2. \/ delphi_joined' = delphi_joined
      \/ ~Dropped(m) /\ delphi_joined' = [delphi_joined EXCEPT ![m.to] = row]
    BY DEF ReceiveIndexSet
<1>3. ~Dropped(m) => delphi_joined[m.to][m.from] = "no"
    BY DEF Dropped
<1>4. v = "no" \/ (v = "high" /\ m.indices \subseteq trans_buffer[m.to])
    BY DEF JoinValue
<1> HIDE DEF v
<1>5. row[m.from] = v /\ \A l \in Node \ {m.from} : row[l] = delphi_joined[m.to][l]
    BY <1>1 DEF TypeOK
<1> HIDE DEF row
<1> QED
    BY <1>1, <1>2, <1>3, <1>4, <1>5 DEF TypeOK

\* No step takes anything of that back.
LEMMA NextGrow ==
    ASSUME TypeOK, [Next]_vars PROVE Grow
<1>1. CASE UNCHANGED <<trans_buffer, delphi_terminated, indices_decided, result,
                       delphi_joined>>
    BY <1>1 DEF Grow
<1>2. ASSUME NEW q \in Node, ShareTranscript(q) \/ Crash(q) PROVE Grow
    BY <1>1, <1>2 DEF ShareTranscript, Crash, delphiVars
<1>3. ASSUME NEW q \in Node, NEW r \in Node, ReceiveTranscript(r, q) PROVE Grow
    BY <1>3 DEF Grow, TypeOK, ReceiveTranscript, CheckFinalSet, delphiVars
<1>4. ASSUME NEW m \in indexMsgs, ReceiveIndexSet(m) PROVE Grow
    <2>1. UNCHANGED <<trans_buffer, delphi_terminated, indices_decided>>
        BY <1>4 DEF ReceiveIndexSet, delphiVars
    <2>2. \/ result' = result
          \/ \E p \in Node : \E term, dec, idx : CheckTermination(p, term, dec, idx)
      <3>1. m.to \in Node
        BY DEF TypeOK
      <3>2. CASE Dropped(m)
        BY <1>4, <3>2 DEF ReceiveIndexSet
      <3>3. CASE ~Dropped(m)
        BY <1>4, <3>1, <3>3 DEF ReceiveIndexSet
      <3> QED
        BY <3>2, <3>3
    <2>3. \A p \in Node : result[p] # {} => result'[p] = result[p]
        BY <2>2, CheckTerminationDoes
    <2> QED
        BY <1>4, <2>1, <2>3, IndexSetJoins DEF Grow
<1>5. ASSUME NEW k \in Node, NEW q \in Node, NEW high \in BOOLEAN,
             HandleDelphiResult(k, q, high)
      PROVE  Grow
    <2>1. \A p \in Node : /\ trans_buffer[p] \subseteq trans_buffer'[p]
                          /\ delphi_terminated[p] \subseteq delphi_terminated'[p]
                          /\ indices_decided[p] \subseteq indices_decided'[p]
        BY <1>5 DEF TypeOK, HandleDelphiResult
    <2>2. \A p \in Node : result[p] # {} => result'[p] = result[p]
        BY <1>5, CheckTerminationDoes DEF HandleDelphiResult
    <2>3. \A p \in Node, l \in Node : delphi_joined[p][l] # "no"
                                    => delphi_joined'[p][l] = delphi_joined[p][l]
        BY <1>5 DEF TypeOK, HandleDelphiResult
    <2> QED
        BY <2>1, <2>2, <2>3 DEF Grow
<1>6. CASE UNCHANGED vars
    BY <1>1, <1>6 DEF vars, delphiVars
<1> QED
    BY <1>2, <1>3, <1>4, <1>5, <1>6 DEF Next, Step
-----------------------------------------------------------------------------
\* An index set that is not dropped is buffered for its sender, and nothing else is.
LEMMA IndexSetBuffers ==
    ASSUME TypeOK, NEW m \in indexMsgs, ReceiveIndexSet(m)
    PROVE  \A p \in Node, l \in Node :
              \/ indices_buffer'[p][l] = indices_buffer[p][l]
              \/ /\ p = m.to /\ l = m.from /\ ~Dropped(m)
                 /\ indices_buffer'[p][l] = m.indices
<1> DEFINE idx == [indices_buffer[m.to] EXCEPT ![m.from] = m.indices]
<1>1. m.from \in Node /\ m.to \in Node
    BY DEF TypeOK
<1>2. \/ indices_buffer' = indices_buffer
      \/ ~Dropped(m) /\ indices_buffer' = [indices_buffer EXCEPT ![m.to] = idx]
    BY DEF ReceiveIndexSet
<1>3. idx[m.from] = m.indices /\ \A l \in Node \ {m.from} : idx[l] = indices_buffer[m.to][l]
    BY <1>1 DEF TypeOK
<1> HIDE DEF idx
<1> QED
    BY <1>1, <1>2, <1>3 DEF TypeOK

\* LeadersInv is inductive.
LEMMA InitLeadersInv == Init => LeadersInv
    BY DEF SelectSet, Init, LeadersInv

LEMMA NextLeadersInv ==
    ASSUME TypeOK, LeadersInv, [Next]_vars PROVE LeadersInv'
<1>1. CASE UNCHANGED <<leaders, indices_buffer, delphi_joined, delphi_terminated,
                       indices_decided>> /\ indexMsgs' \subseteq indexMsgs
    BY <1>1 DEF LeadersInv
<1>2. ASSUME NEW q \in Node, ShareTranscript(q) \/ Crash(q) PROVE LeadersInv'
    BY <1>1, <1>2 DEF ShareTranscript, Crash, delphiVars
<1>3. ASSUME NEW q \in Node, NEW r \in Node, ReceiveTranscript(r, q) PROVE LeadersInv'
    <2>1. \A m \in indexMsgs' : m.from \in leaders
        BY <1>3 DEF LeadersInv, ReceiveTranscript, IndexMsg, MayPropose
    <2>2. \A p \in Node, l \in Node : delphi_joined'[p][l] # "no" => l \in leaders
        BY <1>3 DEF TypeOK, LeadersInv, ReceiveTranscript, JoinValue
    <2> QED
        BY <1>3, <2>1, <2>2 DEF LeadersInv, ReceiveTranscript, delphiVars
<1>4. ASSUME NEW m \in indexMsgs, ReceiveIndexSet(m) PROVE LeadersInv'
    <2>1. m.from \in leaders
        BY DEF LeadersInv
    <2>2. \A p \in Node, l \in Node :
             (indices_buffer'[p][l] # {} \/ delphi_joined'[p][l] # "no") => l \in leaders
        BY <1>4, <2>1, IndexSetJoins, IndexSetBuffers DEF LeadersInv
    <2>3. UNCHANGED <<leaders, delphi_terminated, indices_decided>>
          /\ indexMsgs' \subseteq indexMsgs
        BY <1>4 DEF ReceiveIndexSet, delphiVars
    <2> QED
        BY <2>2, <2>3 DEF LeadersInv
<1>5. ASSUME NEW k \in Node, NEW q \in Node, NEW high \in BOOLEAN,
             HandleDelphiResult(k, q, high)
      PROVE  LeadersInv'
    <2>1. k \in leaders
        BY <1>5 DEF LeadersInv, HandleDelphiResult, DelphiMay
    <2>2. \A p \in Node, l \in Node : delphi_joined'[p][l] # "no" => l \in leaders
        BY <1>5 DEF TypeOK, LeadersInv, HandleDelphiResult
    <2>3. \A p \in Node : /\ delphi_terminated'[p] \subseteq leaders
                          /\ indices_decided'[p] \subseteq delphi_terminated'[p]
        BY <1>5, <2>1 DEF TypeOK, LeadersInv, HandleDelphiResult
    <2> QED
        BY <1>5, <2>2, <2>3 DEF LeadersInv, HandleDelphiResult
<1>6. CASE UNCHANGED vars
    BY <1>1, <1>6 DEF vars, delphiVars
<1> QED
    BY <1>2, <1>3, <1>4, <1>5, <1>6 DEF Next, Step

\* ProposalInv is inductive.
LEMMA InitProposalInv == Init => ProposalInv
    BY DEF Init, ProposalInv

LEMMA NextProposalInv ==
    ASSUME TypeOK, ProposalInv, [Next]_vars PROVE ProposalInv'
<1>1. CASE /\ UNCHANGED <<indices_broadcasted, indices_buffer>>
           /\ indexMsgs' \subseteq indexMsgs
    BY <1>1 DEF ProposalInv
<1>2. ASSUME NEW q \in Node, ShareTranscript(q) \/ Crash(q) PROVE ProposalInv'
    BY <1>1, <1>2 DEF ShareTranscript, Crash
<1>3. ASSUME NEW q \in Node, NEW r \in Node, ReceiveTranscript(r, q) PROVE ProposalInv'
    <2> DEFINE buf == trans_buffer[q] \union {r}
               proposed == {IndexMsg(q, p, buf) : p \in Node}
    <2>1. indices_buffer' = indices_buffer
        BY <1>3 DEF ReceiveTranscript
    <2>2. CASE UNCHANGED <<indices_broadcasted, indexMsgs>>
        BY <1>1, <2>1, <2>2
    <2>3. CASE /\ q \notin indices_broadcasted
               /\ indices_broadcasted' = indices_broadcasted \union {q}
               /\ indexMsgs' = indexMsgs \union proposed
      <3>1. \A m \in proposed : m.from = q /\ m.indices = buf
        BY DEF IndexMsg
      <3>2. \A m \in indexMsgs : m.from # q
        BY <2>3 DEF ProposalInv
      <3>3. \A p \in Node : indices_buffer[p][q] = {}
        BY <2>3 DEF ProposalInv
      <3> HIDE DEF proposed, buf
      <3> QED
        BY <2>1, <2>3, <3>1, <3>2, <3>3 DEF ProposalInv
    <2> QED
        BY <1>3, <2>2, <2>3 DEF ReceiveTranscript, MayPropose
<1>4. ASSUME NEW m \in indexMsgs, ReceiveIndexSet(m) PROVE ProposalInv'
    <2>1. /\ m.from \in indices_broadcasted
          /\ indices_broadcasted' = indices_broadcasted
          /\ indexMsgs' \subseteq indexMsgs
        BY <1>4 DEF TypeOK, ProposalInv, ReceiveIndexSet
    <2>2. \A p \in Node, l \in Node :
              \/ indices_buffer'[p][l] = indices_buffer[p][l]
              \/ l = m.from /\ indices_buffer'[p][l] = m.indices
        BY <1>4, IndexSetBuffers
    <2>3. \A k \in indexMsgs : k.from \in Node
        BY DEF TypeOK
    <2>4. \A p \in Node, l \in Node : indices_buffer'[p][l] # {} =>
              \/ indices_buffer[p][l] # {} /\ indices_buffer'[p][l] = indices_buffer[p][l]
              \/ l = m.from /\ indices_buffer'[p][l] = m.indices
        BY <2>2
    <2>5. \A p \in Node : indices_buffer[p][m.from] # {}
                             => indices_buffer[p][m.from] = m.indices
        BY DEF ProposalInv
    <2>6. \A n \in indexMsgs', k \in indexMsgs' : n.from = k.from => n.indices = k.indices
        BY <2>1 DEF ProposalInv
    <2>7. \A n \in indexMsgs', p \in Node :
              indices_buffer'[p][n.from] # {} => indices_buffer'[p][n.from] = n.indices
        BY <2>1, <2>3, <2>4 DEF ProposalInv
    <2>8. \A p \in Node, q \in Node, l \in Node :
              (indices_buffer'[p][l] # {} /\ indices_buffer'[q][l] # {})
                 => indices_buffer'[p][l] = indices_buffer'[q][l]
        BY <2>3, <2>4, <2>5 DEF ProposalInv
    <2>9. \A l \in Node \ indices_broadcasted :
              /\ \A n \in indexMsgs' : n.from # l
              /\ \A p \in Node : indices_buffer'[p][l] = {}
        BY <2>1, <2>2 DEF ProposalInv
    <2> QED
        BY <2>1, <2>6, <2>7, <2>8, <2>9 DEF ProposalInv
<1>5. ASSUME NEW k \in Node, NEW q \in Node, NEW high \in BOOLEAN,
             HandleDelphiResult(k, q, high)
      PROVE  ProposalInv'
    BY <1>1, <1>5 DEF HandleDelphiResult
<1>6. CASE UNCHANGED vars
    BY <1>1, <1>6 DEF vars
<1> QED
    BY <1>2, <1>3, <1>4, <1>5, <1>6 DEF Next, Step
-----------------------------------------------------------------------------
\* SideInv is inductive where Delphi ends an instance on one side.
LEMMA InitSideInv == Init => SideInv
    BY DEF Init, SideInv

LEMMA NextSideInv ==
    ASSUME SameSide, TypeOK, LeadersInv, SideInv, [Next]_vars PROVE SideInv'
<1>1. CASE UNCHANGED delphiVars
    BY <1>1 DEF SideInv, delphiVars
<1>2. ASSUME NEW k \in Node, NEW q \in Node, NEW high \in BOOLEAN,
             HandleDelphiResult(k, q, high)
      PROVE  SideInv'
    <2>1. /\ k \notin delphi_terminated[q] /\ k \notin indices_decided[q]
          /\ \A p \in Node : k \in delphi_terminated[p] => (k \in indices_decided[p] <=> high)
        BY <1>2 DEF HandleDelphiResult, DelphiMay, LeadersInv
    <2>2. \A p \in Node : \A l \in delphi_terminated'[p] :
             \/ p = q /\ l = k
             \/ /\ p # q \/ l # k
                /\ l \in delphi_terminated[p]
                /\ l \in indices_decided'[p] <=> l \in indices_decided[p]
        BY <1>2 DEF TypeOK, HandleDelphiResult
    <2>3. k \in indices_decided'[q] <=> high
      <3>1. CASE high = TRUE
        BY <1>2, <3>1 DEF TypeOK, HandleDelphiResult
      <3>2. CASE high = FALSE
        BY <1>2, <2>1, <3>2 DEF TypeOK, HandleDelphiResult
      <3> QED
        BY <3>1, <3>2
    <2>4. \A p \in Node : k \in delphi_terminated'[p] => (k \in indices_decided'[p] <=> high)
        BY <2>1, <2>2, <2>3
    <2>5. \A p \in Node : \A l \in delphi_terminated'[p] \ {k} :
             /\ l \in delphi_terminated[p]
             /\ l \in indices_decided'[p] <=> l \in indices_decided[p]
        BY <2>2
    <2> QED
        BY <2>4, <2>5 DEF SideInv
<1>3. ASSUME NEW p \in Node, ShareTranscript(p) \/ Crash(p) PROVE UNCHANGED delphiVars
    BY <1>3 DEF ShareTranscript, Crash
<1>4. ASSUME NEW p \in Node, NEW q \in Node, ReceiveTranscript(q, p)
      PROVE  UNCHANGED delphiVars
    BY <1>4 DEF ReceiveTranscript
<1>5. ASSUME NEW m, ReceiveIndexSet(m) PROVE UNCHANGED delphiVars
    BY <1>5 DEF ReceiveIndexSet
<1>6. UNCHANGED vars => UNCHANGED delphiVars
    BY DEF vars, delphiVars
<1> QED
    BY <1>1, <1>2, <1>3, <1>4, <1>5, <1>6 DEF Next, Step

\* LowInv is inductive.
LEMMA InitLowInv == Init => LowInv
    BY DEF Init, LowInv

LEMMA NextLowInv ==
    ASSUME TypeOK, LowInv, [Next]_vars PROVE LowInv'
<1>1. Grow
    BY NextGrow
<1>2. ASSUME /\ UNCHANGED delphiVars
             /\ \A p \in Node, l \in Node :
                   delphi_joined'[p][l] = "low" => delphi_joined[p][l] = "low"
      PROVE  LowInv'
    <2>1. \A p \in Node, l \in Node :
              delphi_joined[p][l] = "low" => delphi_joined'[p][l] = "low"
        BY <1>1 DEF Grow
    <2>2. \A p \in Node : delphi_terminated[p] \subseteq Node
        BY DEF TypeOK
    <2> QED
        BY <1>2, <2>1, <2>2 DEF LowInv, delphiVars
<1>3. ASSUME NEW q \in Node, NEW r \in Node, ReceiveTranscript(r, q) PROVE LowInv'
    BY <1>2, <1>3 DEF TypeOK, ReceiveTranscript, JoinValue
<1>4. ASSUME NEW m \in indexMsgs, ReceiveIndexSet(m) PROVE LowInv'
    <2>1. \A p \in Node, l \in Node :
              delphi_joined'[p][l] = "low" => delphi_joined[p][l] = "low"
        BY <1>4, IndexSetJoins
    <2> QED
        BY <1>2, <1>4, <2>1 DEF ReceiveIndexSet
<1>5. ASSUME NEW k \in Node, NEW q \in Node, NEW high \in BOOLEAN,
             HandleDelphiResult(k, q, high)
      PROVE  LowInv'
    <2>1. \A p \in Node, l \in Node :
              delphi_joined'[p][l] = "low" => high \/ delphi_joined[p][l] = "low"
        BY <1>5 DEF TypeOK, HandleDelphiResult
    <2>2. high => k \in indices_decided'[q]
        BY <1>5 DEF TypeOK, HandleDelphiResult
    <2>3. \A p \in Node, l \in Node : delphi_joined'[p][l] = "low" =>
              \E r \in Node : indices_decided'[r] # {}
        BY <1>1, <2>1, <2>2 DEF LowInv, Grow
    <2>4. ~high => \E r \in Node : delphi_joined[r][k] = "low"
        BY <1>5 DEF HandleDelphiResult, DelphiMay
    <2>5. \A p \in Node : \A l \in delphi_terminated'[p] \ indices_decided'[p] :
              \/ l \in delphi_terminated[p] \ indices_decided[p]
              \/ l = k /\ ~high
        BY <1>5 DEF TypeOK, HandleDelphiResult
    <2>6. \A p \in Node : \A l \in delphi_terminated'[p] \ indices_decided'[p] :
              l \in Node /\ \E r \in Node : delphi_joined[r][l] = "low"
        BY <2>4, <2>5 DEF LowInv, TypeOK
    <2>7. \A p \in Node : \A l \in delphi_terminated'[p] \ indices_decided'[p] :
              \E r \in Node : delphi_joined'[r][l] = "low"
        BY <1>1, <2>6 DEF Grow
    <2> QED
        BY <2>3, <2>7 DEF LowInv
<1>6. ASSUME NEW p \in Node, ShareTranscript(p) \/ Crash(p) PROVE LowInv'
    BY <1>2, <1>6 DEF ShareTranscript, Crash
<1>7. CASE UNCHANGED vars
    BY <1>2, <1>7 DEF vars, delphiVars
<1> QED
    BY <1>3, <1>4, <1>5, <1>6, <1>7 DEF Next, Step
-----------------------------------------------------------------------------
\* An index set leaves the final set and the output alone, or has them checked
\* against the index sets buffered then.
LEMMA IndexSetChecks ==
    ASSUME TypeOK, NEW m \in indexMsgs, ReceiveIndexSet(m)
    PROVE  \/ UNCHANGED <<final_set, result>>
           \/ CheckTermination(m.to, delphi_terminated[m.to], indices_decided[m.to],
                               indices_buffer'[m.to])
<1> DEFINE idx == [indices_buffer[m.to] EXCEPT ![m.from] = m.indices]
<1>1. m.from \in Node /\ m.to \in Node
    BY DEF TypeOK
<1>2. CASE Dropped(m)
    BY <1>2 DEF ReceiveIndexSet
<1>3. CASE ~Dropped(m)
    <2>1. /\ indices_buffer' = [indices_buffer EXCEPT ![m.to] = idx]
          /\ CheckTermination(m.to, delphi_terminated[m.to], indices_decided[m.to], idx)
        BY <1>3 DEF ReceiveIndexSet
    <2> HIDE DEF idx
    <2>2. indices_buffer'[m.to] = idx
        BY <1>1, <2>1 DEF TypeOK
    <2> QED
        BY <2>1, <2>2
<1> QED
    BY <1>2, <1>3

\* FinalInv is inductive: after the kappa-th result nothing a final set is made of
\* changes any more.
LEMMA InitFinalInv == Init => FinalInv
    BY DEF Init, FinalInv

LEMMA NextFinalInv ==
    ASSUME TypeOK, LeadersInv, ProposalInv, FinalInv, [Next]_vars PROVE FinalInv'
<1>1. CASE UNCHANGED <<leaders, indices_buffer, delphi_terminated, indices_decided,
                       final_set, result>>
    BY <1>1 DEF FinalInv, FinalOf
<1>2. ASSUME NEW q \in Node, ShareTranscript(q) \/ Crash(q) PROVE FinalInv'
    BY <1>1, <1>2 DEF ShareTranscript, Crash, delphiVars
<1>3. ASSUME NEW q \in Node, NEW r \in Node, ReceiveTranscript(r, q) PROVE FinalInv'
    <2>1. UNCHANGED <<leaders, indices_buffer, delphi_terminated, indices_decided, final_set>>
        BY <1>3 DEF ReceiveTranscript, delphiVars
    <2>2. \A p \in Node : result'[p] # {} => result'[p] = final_set[p]
        BY <1>3 DEF TypeOK, FinalInv, ReceiveTranscript, CheckFinalSet
    <2> QED
        BY <2>1, <2>2 DEF FinalInv, FinalOf
<1>4. ASSUME NEW m \in indexMsgs, ReceiveIndexSet(m) PROVE FinalInv'
    <2>1. UNCHANGED <<leaders, delphi_terminated, indices_decided>> /\ m.to \in Node
        BY <1>4 DEF TypeOK, ReceiveIndexSet, delphiVars
    <2>2. \A p \in Node, l \in Node :
              indices_buffer[p][l] # {} => indices_buffer'[p][l] = indices_buffer[p][l]
        BY <1>4, IndexSetBuffers DEF ProposalInv
    <2>3. \A p \in Node : final_set[p] # {} =>
              /\ delphi_terminated'[p] = leaders'
              /\ \A l \in indices_decided'[p] : indices_buffer'[p][l] # {}
              /\ final_set[p] = FinalOf(p)'
      <3> SUFFICES ASSUME NEW p \in Node, final_set[p] # {}
                   PROVE  /\ delphi_terminated'[p] = leaders'
                          /\ \A l \in indices_decided'[p] : indices_buffer'[p][l] # {}
                          /\ final_set[p] = FinalOf(p)'
        OBVIOUS
      <3>1. \A l \in indices_decided[p] : /\ l \in Node /\ indices_buffer[p][l] # {}
                                          /\ indices_buffer'[p][l] = indices_buffer[p][l]
        BY <2>2 DEF TypeOK, FinalInv
      <3>2. {indices_buffer'[p][l] : l \in indices_decided'[p]}
                = {indices_buffer[p][l] : l \in indices_decided[p]}
        BY <2>1, <3>1
      <3> QED
        BY <2>1, <3>1, <3>2 DEF FinalInv, FinalOf
    <2>4. CASE UNCHANGED <<final_set, result>>
        BY <2>3, <2>4 DEF FinalInv
    <2>5. CASE CheckTermination(m.to, delphi_terminated[m.to], indices_decided[m.to],
                                indices_buffer'[m.to])
      <3> DEFINE p == m.to
      <3>1. \A q \in Node :
              \/ final_set'[q] = final_set[q] /\ result'[q] = result[q]
              \/ /\ q = p
                 /\ Cardinality(delphi_terminated[p]) >= Kappa
                 /\ \A l \in indices_decided[p] : indices_buffer'[p][l] # {}
                 /\ final_set'[q] = UNION {indices_buffer'[p][l] : l \in indices_decided[p]}
                 /\ \/ result'[q] = result[q]
                    \/ result[q] = {} /\ result'[q] = final_set'[q]
        BY <2>1, <2>5, CheckTerminationDoes
      <3>2. Cardinality(delphi_terminated[p]) >= Kappa => delphi_terminated[p] = leaders
        BY <2>1, AllLeaders DEF LeadersInv
      <3>3. FinalOf(p)' = UNION {indices_buffer'[p][l] : l \in indices_decided[p]}
        BY <2>1 DEF FinalOf
      <3>4. \A q \in Node : final_set'[q] # {} =>
              /\ delphi_terminated'[q] = leaders'
              /\ \A l \in indices_decided'[q] : indices_buffer'[q][l] # {}
              /\ final_set'[q] = FinalOf(q)'
        BY <2>1, <2>3, <3>1, <3>2, <3>3
      <3>5. \A q \in Node : result[q] # {} => final_set'[q] = final_set[q]
        BY <2>3, <3>1, <3>3 DEF FinalInv
      <3>6. \A q \in Node : result'[q] # {} => result'[q] = final_set'[q]
        BY <3>1, <3>5 DEF FinalInv
      <3> QED
        BY <3>4, <3>6 DEF FinalInv
    <2> QED
        BY <1>4, <2>4, <2>5, IndexSetChecks
<1>5. ASSUME NEW k \in Node, NEW q \in Node, NEW high \in BOOLEAN,
             HandleDelphiResult(k, q, high)
      PROVE  FinalInv'
    <2>1. k \in leaders \ delphi_terminated[q]
        BY <1>5 DEF HandleDelphiResult, DelphiMay, LeadersInv
    <2>2. final_set[q] = {} /\ result[q] = {}
        BY <2>1 DEF FinalInv
    <2>3. UNCHANGED <<leaders, indices_buffer>>
        BY <1>5 DEF HandleDelphiResult
    <2>4. \A p \in Node \ {q} : /\ delphi_terminated'[p] = delphi_terminated[p]
                                /\ indices_decided'[p] = indices_decided[p]
        BY <1>5 DEF TypeOK, HandleDelphiResult
    <2>5. CheckTermination(q, delphi_terminated'[q], indices_decided'[q], indices_buffer[q])
      <3>1. delphi_terminated'[q] = delphi_terminated[q] \union {k}
        BY <1>5 DEF TypeOK, HandleDelphiResult
      <3>2. indices_decided'[q] = IF high THEN indices_decided[q] \union {k}
                                          ELSE indices_decided[q]
        BY <1>5 DEF TypeOK, HandleDelphiResult
      <3> QED
        BY <1>5, <3>1, <3>2 DEF HandleDelphiResult
    <2>6. delphi_terminated'[q] \subseteq leaders
        BY <1>5, <2>1 DEF TypeOK, LeadersInv, HandleDelphiResult
    <2>7. Cardinality(delphi_terminated'[q]) >= Kappa => delphi_terminated'[q] = leaders
        BY <2>6, AllLeaders DEF LeadersInv
    <2>8. \A p \in Node :
              \/ final_set'[p] = final_set[p] /\ result'[p] = result[p]
              \/ /\ p = q
                 /\ Cardinality(delphi_terminated'[q]) >= Kappa
                 /\ \A l \in indices_decided'[q] : indices_buffer[q][l] # {}
                 /\ final_set'[q] = UNION {indices_buffer[q][l] : l \in indices_decided'[q]}
                 /\ result'[q] = {} \/ result'[q] = final_set'[q]
        BY <2>2, <2>5, CheckTerminationDoes
    <2>9. FinalOf(q)' = UNION {indices_buffer[q][l] : l \in indices_decided'[q]}
        BY <2>3 DEF FinalOf
    <2>10. \A p \in Node \ {q} : FinalOf(p)' = FinalOf(p)
        BY <2>3, <2>4 DEF FinalOf
    <2> QED
        BY <2>2, <2>3, <2>4, <2>7, <2>8, <2>9, <2>10 DEF FinalInv
<1>6. CASE UNCHANGED vars
    BY <1>1, <1>6 DEF vars, delphiVars
<1> QED
    BY <1>2, <1>3, <1>4, <1>5, <1>6 DEF Next, Step
-----------------------------------------------------------------------------
\* n - f is positive, so no index set of that size is empty.
LEMMA QuorumPositive == Quorum \in Nat /\ Quorum > 0
    BY FS_CardinalityType, AACSAssumption DEF Quorum

LEMMA SizedNotEmpty ==
    ASSUME NEW S, Cardinality(S) = Quorum PROVE S # {}
    BY QuorumPositive, FS_EmptySet

\* HeldInv is inductive.
LEMMA InitHeldInv == Init => HeldInv
    BY DEF Init, HeldInv

LEMMA NextHeldInv ==
    ASSUME TypeOK, ProposalInv, HeldInv, [Next]_vars PROVE HeldInv'
<1>1. Grow
    BY NextGrow
<1>2. ASSUME \A p \in Node, l \in Node :
                 \/ indices_buffer'[p][l] = indices_buffer[p][l]
                 \/ /\ Cardinality(indices_buffer'[p][l]) = Quorum
                    /\ indices_buffer[p][l] # {}
                          => indices_buffer'[p][l] = indices_buffer[p][l],
             \A p \in Node, l \in Node :
                 delphi_joined'[p][l] = "high" =>
                     \/ delphi_joined[p][l] = "high"
                     \/ /\ indices_buffer'[p][l] # {}
                        /\ indices_buffer'[p][l] \subseteq trans_buffer'[p],
             \A p \in Node : \A l \in indices_decided'[p] :
                 \/ l \in indices_decided[p]
                 \/ \E q \in Node : delphi_joined[q][l] = "high",
             \A p \in Node :
                 result'[p] \subseteq result[p] \/ result'[p] \subseteq trans_buffer'[p]
      PROVE  HeldInv'
    <2>1. \A p \in Node, l \in Node :
              /\ indices_buffer'[p][l] # {} => Cardinality(indices_buffer'[p][l]) = Quorum
              /\ delphi_joined'[p][l] = "high" =>
                   /\ indices_buffer'[p][l] # {}
                   /\ indices_buffer'[p][l] \subseteq trans_buffer'[p]
        BY <1>1, <1>2 DEF HeldInv, Grow
    <2>2. \A p \in Node : indices_decided'[p] \subseteq Node
        BY NextTypeOK DEF TypeOK
    <2>3. \A p \in Node : \A l \in indices_decided'[p] :
              \E q \in Node : delphi_joined'[q][l] = "high"
      <3>1. \A p \in Node : \A l \in indices_decided'[p] :
              l \in Node /\ \E q \in Node : delphi_joined[q][l] = "high"
        BY <1>2, <2>2 DEF HeldInv
      <3> QED
        BY <1>1, <3>1 DEF Grow
    <2>4. \A p \in Node : result'[p] \subseteq trans_buffer'[p]
        BY <1>1, <1>2 DEF HeldInv, Grow
    <2> QED
        BY <2>1, <2>3, <2>4 DEF HeldInv
<1>3. CASE UNCHANGED <<trans_buffer, indices_buffer, delphi_joined, indices_decided, result>>
    BY <1>2, <1>3
<1>4. ASSUME NEW q \in Node, ShareTranscript(q) \/ Crash(q) PROVE HeldInv'
    BY <1>3, <1>4 DEF ShareTranscript, Crash, delphiVars
<1>5. ASSUME NEW q \in Node, NEW r \in Node, ReceiveTranscript(r, q) PROVE HeldInv'
    <2>1. UNCHANGED <<indices_buffer, indices_decided>>
        BY <1>5 DEF ReceiveTranscript, delphiVars
    <2>2. \A p \in Node, l \in Node :
              delphi_joined'[p][l] = "high" =>
                  \/ delphi_joined[p][l] = "high"
                  \/ /\ indices_buffer[p][l] # {}
                     /\ indices_buffer[p][l] \subseteq trans_buffer'[p]
        BY <1>5 DEF TypeOK, ReceiveTranscript, JoinValue
    <2>3. \A p \in Node : result'[p] = result[p] \/ result'[p] \subseteq trans_buffer'[p]
        BY <1>5 DEF TypeOK, ReceiveTranscript, CheckFinalSet, Complete
    <2> QED
        BY <1>2, <2>1, <2>2, <2>3
<1>6. ASSUME NEW m \in indexMsgs, ReceiveIndexSet(m) PROVE HeldInv'
    <2>1. UNCHANGED <<trans_buffer, indices_decided>> /\ m.to \in Node
        BY <1>6 DEF TypeOK, ReceiveIndexSet, delphiVars
    <2>2. \A p \in Node, l \in Node :
              \/ indices_buffer'[p][l] = indices_buffer[p][l]
              \/ /\ Cardinality(indices_buffer'[p][l]) = Quorum
                 /\ indices_buffer[p][l] # {}
                       => indices_buffer'[p][l] = indices_buffer[p][l]
        BY <1>6, IndexSetBuffers DEF Dropped, ProposalInv
    <2>3. \A p \in Node, l \in Node :
              delphi_joined'[p][l] = "high" =>
                  \/ delphi_joined[p][l] = "high"
                  \/ /\ indices_buffer'[p][l] # {}
                     /\ indices_buffer'[p][l] \subseteq trans_buffer'[p]
      <3> SUFFICES ASSUME NEW p \in Node, NEW l \in Node,
                          delphi_joined'[p][l] = "high", delphi_joined[p][l] # "high"
                   PROVE  /\ indices_buffer'[p][l] # {}
                          /\ indices_buffer'[p][l] \subseteq trans_buffer'[p]
        OBVIOUS
      <3>1. /\ p = m.to /\ l = m.from /\ ~Dropped(m)
            /\ m.indices \subseteq trans_buffer[p]
        BY <1>6, IndexSetJoins
      <3>2. indices_buffer'[p][l] = m.indices
        <4>1. indices_buffer' = [indices_buffer EXCEPT
                    ![m.to] = [indices_buffer[m.to] EXCEPT ![m.from] = m.indices]]
            BY <1>6, <3>1 DEF ReceiveIndexSet
        <4> QED
            BY <3>1, <4>1 DEF TypeOK
      <3>3. m.indices # {}
        BY <3>1, SizedNotEmpty DEF Dropped
      <3> QED
        BY <2>1, <3>1, <3>2, <3>3
    <2>4. \A p \in Node : result'[p] = result[p] \/ result'[p] \subseteq trans_buffer[p]
        BY <1>6, <2>1, IndexSetChecks, CheckTerminationDoes
    <2> QED
        BY <1>2, <2>1, <2>2, <2>3, <2>4
<1>7. ASSUME NEW k \in Node, NEW q \in Node, NEW high \in BOOLEAN,
             HandleDelphiResult(k, q, high)
      PROVE  HeldInv'
    <2>1. UNCHANGED <<trans_buffer, indices_buffer>>
        BY <1>7 DEF HandleDelphiResult
    <2>2. \A p \in Node, l \in Node :
              delphi_joined'[p][l] = "high" => delphi_joined[p][l] = "high"
        BY <1>7 DEF TypeOK, HandleDelphiResult
    <2>3. \A p \in Node : \A l \in indices_decided'[p] :
              l \in indices_decided[p] \/ (high /\ l = k)
        BY <1>7 DEF TypeOK, HandleDelphiResult
    <2>4. high => \E r \in Node : delphi_joined[r][k] = "high"
        BY <1>7 DEF HandleDelphiResult, DelphiMay
    <2>5. \A p \in Node : result'[p] = result[p] \/ result'[p] \subseteq trans_buffer[p]
        BY <1>7, CheckTerminationDoes DEF HandleDelphiResult
    <2> QED
        BY <1>2, <2>1, <2>2, <2>3, <2>4, <2>5
<1>8. CASE UNCHANGED vars
    BY <1>3, <1>8 DEF vars, delphiVars
<1> QED
    BY <1>4, <1>5, <1>6, <1>7, <1>8 DEF Next, Step

-----------------------------------------------------------------------------
\* Both invariants are inductive, and hold in every behaviour.
LEMMA NextBaseInv ==
    ASSUME BaseInv, [Next]_vars PROVE BaseInv'
    BY NextTypeOK, NextLeadersInv, NextProposalInv, NextFinalInv, NextLowInv,
       NextHeldInv DEF BaseInv

LEMMA BaseInductive == Spec => []BaseInv
<1>1. Init => BaseInv
    BY InitTypeOK, InitLeadersInv, InitProposalInv, InitFinalInv, InitLowInv,
       InitHeldInv DEF BaseInv
<1> QED
    BY <1>1, NextBaseInv, PTL DEF Spec

LEMMA Inductive ==
    ASSUME SameSide PROVE Spec => []IInv
<1>1. Init => SideInv
    BY InitSideInv
<1>2. ASSUME BaseInv, SideInv, [Next]_vars PROVE SideInv'
    BY <1>2, NextSideInv DEF BaseInv
<1> QED
    BY <1>1, <1>2, BaseInductive, PTL DEF Spec, IInv

\* Two nodes that have seen all instances agree on what was decided.
LEMMA SameDecisions ==
    ASSUME IInv, NEW p \in Node, NEW q \in Node,
           delphi_terminated[p] = leaders, delphi_terminated[q] = leaders
    PROVE  indices_decided[p] = indices_decided[q]
<1>1. \A l \in leaders : l \in indices_decided[p] <=> l \in indices_decided[q]
    BY DEF IInv, SideInv
<1>2. indices_decided[p] \subseteq leaders /\ indices_decided[q] \subseteq leaders
    BY DEF IInv, BaseInv, LeadersInv
<1> QED
    BY <1>1, <1>2

\* Two outputs are unions of the same index sets.
LEMMA OneOutput == IInv => Agreement
<1> SUFFICES ASSUME IInv, NEW p \in Node, NEW q \in Node,
                    result[p] # {}, result[q] # {}
             PROVE  result[p] = result[q]
  BY DEF Agreement
<1>1. \A r \in {p, q} :
         /\ result[r] = final_set[r] /\ final_set[r] = FinalOf(r)
         /\ delphi_terminated[r] = leaders
         /\ \A l \in indices_decided[r] : indices_buffer[r][l] # {}
  BY DEF IInv, BaseInv, FinalInv
<1>2. indices_decided[p] = indices_decided[q]
  BY <1>1, SameDecisions
<1>3. indices_decided[p] \subseteq Node
  BY DEF IInv, BaseInv, TypeOK
<1>4. \A l \in indices_decided[p] : indices_buffer[p][l] = indices_buffer[q][l]
  BY <1>1, <1>2, <1>3 DEF IInv, BaseInv, ProposalInv
<1>5. {indices_buffer[p][l] : l \in indices_decided[p]}
          = {indices_buffer[q][l] : l \in indices_decided[q]}
  BY <1>2, <1>4
<1> QED
  BY <1>1, <1>5 DEF FinalOf

\* No two nodes output different common subsets, whatever the number of nodes, of
\* faults and of leaders, if the results of an instance fall on one side.
THEOREM AgreementHolds ==
    ASSUME SameSide PROVE Spec => []Agreement
    BY Inductive, OneOutput, PTL

\* A node that has seen all instances end has one decided high.
LEMMA DecidedSomething == IInv => SomethingDecided
<1> SUFFICES ASSUME IInv, NEW p \in Node, Cardinality(delphi_terminated[p]) >= Kappa,
                    indices_decided[p] = {}
             PROVE  FALSE
    BY DEF SomethingDecided
<1>1. delphi_terminated[p] = leaders
    BY AllLeaders DEF IInv, BaseInv, LeadersInv
<1>2. leaders # {}
    BY FS_EmptySet, AACSAssumption DEF IInv, BaseInv, LeadersInv
<1>3. PICK l \in leaders : TRUE
    BY <1>2
<1>4. PICK q \in Node : delphi_joined[q][l] = "low"
    BY <1>1, <1>3 DEF IInv, BaseInv, LowInv
<1>5. PICK r \in Node : indices_decided[r] # {}
    BY <1>3, <1>4 DEF IInv, BaseInv, LowInv, TypeOK
<1>6. PICK k \in indices_decided[r] : TRUE
    BY <1>5
<1>7. k \in delphi_terminated[r] /\ k \in delphi_terminated[p]
    BY <1>1, <1>6 DEF IInv, BaseInv, LeadersInv
<1>8. k \in indices_decided[p]
    BY <1>6, <1>7 DEF IInv, SideInv
<1> QED
    BY <1>8

THEOREM SomethingDecidedHolds ==
    ASSUME SameSide PROVE Spec => []SomethingDecided
    BY Inductive, DecidedSomething, PTL

\* An output contains a whole index set.
LEMMA LargeOutput == BaseInv => ResultLargeEnough
<1> SUFFICES ASSUME BaseInv, NEW p \in Node, result[p] # {}
             PROVE  /\ Cardinality(result[p]) >= Quorum
                    /\ result[p] \subseteq trans_buffer[p]
  BY DEF ResultLargeEnough
<1>1. result[p] = FinalOf(p) /\ \A l \in indices_decided[p] : indices_buffer[p][l] # {}
  BY DEF BaseInv, FinalInv
<1>2. PICK l \in indices_decided[p] : TRUE
  BY <1>1 DEF FinalOf
<1>3. l \in Node /\ Cardinality(indices_buffer[p][l]) = Quorum
  BY <1>1 DEF BaseInv, HeldInv, TypeOK
<1>4. indices_buffer[p][l] \subseteq result[p]
  BY <1>1 DEF FinalOf
<1>5. IsFiniteSet(result[p])
  BY FS_Subset, AACSAssumption DEF BaseInv, TypeOK
<1>6. Quorum <= Cardinality(result[p])
  BY <1>3, <1>4, <1>5, FS_Subset
<1>7. Cardinality(result[p]) \in Nat
  BY <1>5, FS_CardinalityType
<1> QED
  BY <1>6, <1>7, QuorumPositive DEF BaseInv, HeldInv

\* Every output has at least n - f transcripts, all of them held.
THEOREM ResultLargeEnoughHolds == Spec => []ResultLargeEnough
    BY BaseInductive, LargeOutput, PTL

\* Whatever is decided high is held in full by some node.
THEOREM DecidedIsHeldHolds == Spec => []DecidedIsHeld
<1>1. BaseInv => DecidedIsHeld
    BY DEF BaseInv, HeldInv, TypeOK, DecidedIsHeld
<1> QED
    BY <1>1, BaseInductive, PTL
-----------------------------------------------------------------------------
\* What travels, and what a node holds, was offered by its owner.
OfferedInv ==
    /\ \A m \in transMsgs : m[1] \in shared
    /\ \A p \in Node : trans_buffer[p] \subseteq shared

LEMMA InitOfferedInv == Init => OfferedInv
    BY DEF Init, OfferedInv

LEMMA NextOfferedInv ==
    ASSUME TypeOK, OfferedInv, [Next]_vars PROVE OfferedInv'
<1>1. CASE UNCHANGED <<transMsgs, trans_buffer, shared>>
    BY <1>1 DEF OfferedInv
<1>2. ASSUME NEW p \in Node, ShareTranscript(p) PROVE OfferedInv'
    BY <1>2 DEF OfferedInv, ShareTranscript, Broadcast
<1>3. ASSUME NEW p \in Node, NEW q \in Node, ReceiveTranscript(q, p) PROVE OfferedInv'
    BY <1>3 DEF OfferedInv, TypeOK, ReceiveTranscript
<1>4. ASSUME NEW p \in Node, Crash(p) PROVE OfferedInv'
    BY <1>4 DEF OfferedInv, Crash
<1>5. ASSUME NEW m \in indexMsgs, ReceiveIndexSet(m) PROVE OfferedInv'
    BY <1>1, <1>5 DEF ReceiveIndexSet
<1>6. ASSUME NEW l \in Node, NEW p \in Node, NEW high \in BOOLEAN,
             HandleDelphiResult(l, p, high)
      PROVE  OfferedInv'
    BY <1>1, <1>6 DEF HandleDelphiResult
<1>7. CASE UNCHANGED vars
    BY <1>1, <1>7 DEF vars
<1> QED
    BY <1>2, <1>3, <1>4, <1>5, <1>6, <1>7 DEF Next, Step

\* A step hands over one set, at a node that had none, and offers nothing then.
LEMMA OneDelivery ==
    ASSUME TypeOK, [Next]_vars
    PROVE  \/ \E p \in Node : Promised!Offer(p)
           \/ UNCHANGED <<shared, result>>
           \/ /\ shared' = shared
              /\ \E p \in Node, set \in SUBSET Node :
                    result[p] = {} /\ set # {} /\ result' = [result EXCEPT ![p] = set]
<1> DEFINE Goal ==
        \/ UNCHANGED <<shared, result>>
        \/ /\ shared' = shared
           /\ \E p \in Node, set \in SUBSET Node :
                 result[p] = {} /\ set # {} /\ result' = [result EXCEPT ![p] = set]
<1>1. ASSUME shared' = shared, NEW p \in Node, NEW set \in SUBSET Node, NEW buf,
             CheckFinalSet(p, set, buf)
      PROVE  Goal
    BY <1>1 DEF CheckFinalSet, Complete
<1>2. ASSUME shared' = shared, NEW p \in Node, NEW term, NEW dec \in SUBSET Node,
             NEW idx \in [Node -> SUBSET Node], CheckTermination(p, term, dec, idx)
      PROVE  Goal
    <2> DEFINE set == UNION {idx[l] : l \in dec}
    <2>1. set \in SUBSET Node
        BY <1>2
    <2>2. UNCHANGED result \/ CheckFinalSet(p, set, trans_buffer[p])
        BY <1>2 DEF CheckTermination
    <2> HIDE DEF set
    <2> QED
        BY <1>1, <1>2, <2>1, <2>2
<1>3. ASSUME NEW p \in Node, ShareTranscript(p) PROVE Promised!Offer(p)
    BY <1>3 DEF ShareTranscript, Promised!Offer
<1>4. ASSUME NEW p \in Node, NEW q \in Node, ReceiveTranscript(q, p) PROVE Goal
    <2>1. /\ shared' = shared /\ final_set[p] \in SUBSET Node
          /\ CheckFinalSet(p, final_set[p], trans_buffer[p] \union {q})
        BY <1>4 DEF TypeOK, ReceiveTranscript
    <2> HIDE DEF Goal
    <2> QED
        BY <1>1, <2>1
<1>5. ASSUME NEW p \in Node, Crash(p) PROVE Goal
    BY <1>5 DEF Crash
<1>6. ASSUME NEW m \in indexMsgs, ReceiveIndexSet(m) PROVE Goal
    <2> DEFINE p   == m.to
               idx == [indices_buffer[p] EXCEPT ![m.from] = m.indices]
    <2>1. /\ p \in Node /\ indices_decided[p] \in SUBSET Node
          /\ idx \in [Node -> SUBSET Node]
        BY DEF TypeOK
    <2>2. /\ shared' = shared
          /\ \/ UNCHANGED result
             \/ CheckTermination(p, delphi_terminated[p], indices_decided[p], idx)
        BY <1>6 DEF ReceiveIndexSet
    <2> HIDE DEF idx, p
    <2>3. CASE UNCHANGED result
        BY <2>2, <2>3
    <2>4. CASE CheckTermination(p, delphi_terminated[p], indices_decided[p], idx)
        <3> HIDE DEF Goal
        <3> QED
            BY <1>2, <2>1, <2>2, <2>4
    <2> QED
        BY <2>2, <2>3, <2>4
<1>7. ASSUME NEW l \in Node, NEW p \in Node, NEW high \in BOOLEAN,
             HandleDelphiResult(l, p, high)
      PROVE  Goal
    <2> DEFINE term == delphi_terminated[p] \union {l}
               dec  == IF high THEN indices_decided[p] \union {l} ELSE indices_decided[p]
    <2>1. dec \in SUBSET Node /\ indices_buffer[p] \in [Node -> SUBSET Node]
        BY DEF TypeOK
    <2>2. shared' = shared /\ CheckTermination(p, term, dec, indices_buffer[p])
        BY <1>7 DEF HandleDelphiResult
    <2> HIDE DEF Goal, term, dec
    <2> QED
        BY <1>2, <2>1, <2>2
<1>8. CASE UNCHANGED vars
    BY <1>8 DEF vars
<1> QED
    BY <1>3, <1>4, <1>5, <1>6, <1>7, <1>8 DEF Next, Step

\* Nodes hand the key generation one common subset of what was offered.
THEOREM IsCommonSubsetHolds ==
    ASSUME SameSide PROVE Spec => IsCommonSubset
<1>0. IInv' => Agreement' /\ ResultLargeEnough'
    <2>1. IInv => Agreement /\ ResultLargeEnough
        BY OneOutput, LargeOutput DEF IInv
    <2> QED
        BY <2>1, PTL
<1>1. Init => Promised!Init
    BY DEF Init, Promised!Init
<1>2. ASSUME IInv, IInv', OfferedInv, [Next]_vars
      PROVE  [Promised!Next]_(Promised!vars)
    <2>1. CASE \E p \in Node : Promised!Offer(p)
        BY <2>1 DEF Promised!Next
    <2>2. CASE UNCHANGED <<shared, result>>
        BY <2>2 DEF Promised!vars
    <2>3. ASSUME shared' = shared, NEW p \in Node, NEW set \in SUBSET Node,
                 result[p] = {}, set # {}, result' = [result EXCEPT ![p] = set]
          PROVE  Promised!Next
      <3>1. result \in [Node -> SUBSET Node] /\ result'[p] = set
        BY <1>2, <2>3 DEF IInv, BaseInv, TypeOK
      <3>2. /\ set \subseteq trans_buffer'[p] /\ Cardinality(set) >= Quorum
            /\ \A q \in Node : result'[q] # {} => result'[q] = set
        <4>1. Agreement' /\ ResultLargeEnough'
            BY <1>0, <1>2
        <4> QED
            BY <2>3, <3>1, <4>1 DEF Agreement, ResultLargeEnough, Quorum
      <3>3. trans_buffer'[p] \subseteq shared
        BY <1>2, <2>3, NextOfferedInv DEF IInv, BaseInv, OfferedInv
      <3>4. \A q \in Node : result[q] \in {{}, set}
        BY <2>3, <3>1, <3>2
      <3>5. Promised!Deliver(p, set)
        BY <2>3, <3>2, <3>3, <3>4 DEF Promised!Deliver
      <3> QED
        BY <3>2, <3>5 DEF Promised!Next
    <2> QED
        BY <1>2, <2>1, <2>2, <2>3, OneDelivery DEF IInv, BaseInv
<1>3. Spec => []OfferedInv
    <2>1. ASSUME BaseInv, OfferedInv, [Next]_vars PROVE OfferedInv'
        BY <2>1, NextOfferedInv DEF BaseInv
    <2> QED
        BY <2>1, InitOfferedInv, BaseInductive, PTL DEF Spec
<1> QED
    BY <1>1, <1>2, <1>3, Inductive, PTL DEF Spec, IsCommonSubset, Promised!Spec
-----------------------------------------------------------------------------
\* A step touches one instance at one node: that node joins it, or sees it end, or the
\* instance is as it was.
LEMMA InstanceStep ==
    ASSUME TypeOK, LeadersInv, [Next]_vars, NEW l \in Node
    PROVE  [Instance(l)!Next]_(Instance(l)!vars)
<1> DEFINE joined == [p \in Node |-> delphi_joined[p][l]]
           ended  == [p \in Node |-> IF l \notin delphi_terminated[p] THEN "no"
                                     ELSE IF l \in indices_decided[p] THEN "high"
                                     ELSE "low"]
           Same   == joined' = joined /\ ended' = ended
<1>1. Same => UNCHANGED Instance(l)!vars
    BY DEF Instance!vars
<1>2. ASSUME UNCHANGED <<delphi_joined, delphiVars>> PROVE Same
    BY <1>2 DEF delphiVars
<1>3. ASSUME NEW p \in Node, NEW side \in {"low", "high"},
             ended' = ended, joined[p] = "no", joined' = [joined EXCEPT ![p] = side]
      PROVE  Instance(l)!Next
    BY <1>3 DEF Instance!Next, Instance!Join
<1> HIDE DEF Same, ended
<1>4. ASSUME NEW p \in Node, NEW q \in Node, ReceiveTranscript(q, p)
      PROVE  Same \/ Instance(l)!Next
    <2> DEFINE row == [k \in Node |-> IF delphi_joined[p][k] = "no"
                          THEN JoinValue(indices_buffer[p][k], trans_buffer[p] \union {q})
                          ELSE delphi_joined[p][k]]
    <2>1. ended' = ended /\ delphi_joined' = [delphi_joined EXCEPT ![p] = row]
        BY <1>4 DEF ReceiveTranscript, delphiVars, ended
    <2>2. row[l] \in {"no", "high"} \/ row[l] = delphi_joined[p][l]
        BY DEF JoinValue
    <2>3. delphi_joined[p][l] # "no" => row[l] = delphi_joined[p][l]
        OBVIOUS
    <2> HIDE DEF row
    <2>4. joined' = [joined EXCEPT ![p] = row[l]]
        BY <2>1 DEF TypeOK
    <2>5. CASE delphi_joined[p][l] = "no" /\ row[l] = "high"
        BY <1>3, <2>1, <2>4, <2>5
    <2>6. CASE row[l] = delphi_joined[p][l]
        BY <2>1, <2>4, <2>6 DEF Same
    <2> QED
        BY <2>2, <2>3, <2>5, <2>6
<1>5. ASSUME NEW m \in indexMsgs, ReceiveIndexSet(m) PROVE Same \/ Instance(l)!Next
    <2>1. ended' = ended
        BY <1>5 DEF ReceiveIndexSet, delphiVars, ended
    <2>2. /\ m.to \in Node
          /\ \A p \in Node : \/ joined'[p] = joined[p]
                             \/ p = m.to /\ joined[p] = "no" /\ joined'[p] = "high"
        BY <1>5, IndexSetJoins
    <2>3. CASE joined'[m.to] = joined[m.to]
        BY <2>1, <2>2, <2>3 DEF Same
    <2>4. CASE joined[m.to] = "no" /\ joined'[m.to] = "high"
        <3>1. joined' = [joined EXCEPT ![m.to] = "high"]
            BY <2>2, <2>4
        <3> QED
            BY <1>3, <2>1, <2>2, <2>4, <3>1
    <2> QED
        BY <2>2, <2>3, <2>4
<1>6. ASSUME NEW p \in Node, NEW high \in BOOLEAN, HandleDelphiResult(l, p, high)
      PROVE  Instance(l)!Next
    <2> DEFINE side == IF high THEN "high" ELSE "low"
    <2>1. DelphiMay(l, p, high)
        BY <1>6 DEF HandleDelphiResult
    <2>2. joined[p] # "no" /\ ended[p] = "no"
        BY <2>1 DEF DelphiMay, ended
    <2>3. \A q \in Node : joined'[q] = joined[q]
        BY <1>6, <2>2 DEF HandleDelphiResult, TypeOK
    <2>4. joined' = joined
        BY <2>3
    <2>5. /\ delphi_terminated' =
                 [delphi_terminated EXCEPT ![p] = delphi_terminated[p] \union {l}]
          /\ indices_decided' = [indices_decided EXCEPT ![p] =
                 IF high THEN indices_decided[p] \union {l} ELSE indices_decided[p]]
        BY <1>6 DEF HandleDelphiResult
    <2>6. l \notin indices_decided[p]
        BY <2>1 DEF DelphiMay, LeadersInv
    <2>7. \A q \in Node : ended'[q] = IF q = p THEN side ELSE ended[q]
        BY <2>5, <2>6 DEF TypeOK, ended
    <2>8. ended' = [ended EXCEPT ![p] = side]
        BY <2>7 DEF ended
    <2>9. {q \in Node : joined[q] # "no"} \in {S \in SUBSET Node : Cardinality(S) >= Quorum}
        BY <2>1 DEF DelphiMay
    <2>10. (\E q \in Node : joined[q] = side) /\ side \in {"low", "high"}
        BY <2>1 DEF DelphiMay
    <2>11. SameSide => \A q \in Node : ended[q] \in {"no", side}
        BY <2>1 DEF DelphiMay, ended
    <2> HIDE DEF side, joined
    <2>12. Instance(l)!End(p, side)
        BY <2>2, <2>4, <2>8, <2>9, <2>10, <2>11 DEF Instance!End, ended, joined
    <2> QED
        BY <2>10, <2>12 DEF Instance!Next
<1>7. ASSUME NEW k \in Node \ {l}, NEW p \in Node, NEW high \in BOOLEAN,
             HandleDelphiResult(k, p, high)
      PROVE  Same \/ Instance(l)!Next
    <2>1. \A q \in Node : /\ l \in delphi_terminated'[q] <=> l \in delphi_terminated[q]
                          /\ l \in indices_decided'[q] <=> l \in indices_decided[q]
        BY <1>7 DEF HandleDelphiResult, TypeOK
    <2>2. ended' = ended
        BY <2>1 DEF ended
    <2>3. \/ delphi_joined' = delphi_joined
          \/ delphi_joined' = [delphi_joined EXCEPT ![p] = [i \in Node |->
                 IF i \in leaders /\ delphi_joined[p][i] = "no"
                 THEN "low" ELSE delphi_joined[p][i]]]
        BY <1>7 DEF HandleDelphiResult
    <2>4. \A q \in Node : \/ joined'[q] = joined[q]
                          \/ q = p /\ joined[q] = "no" /\ joined'[q] = "low"
        BY <2>3 DEF TypeOK
    <2>5. CASE joined'[p] = joined[p]
        BY <2>2, <2>4, <2>5 DEF Same
    <2>6. CASE joined[p] = "no" /\ joined'[p] = "low"
        <3>1. joined' = [joined EXCEPT ![p] = "low"]
            BY <2>4, <2>6
        <3> QED
            BY <1>3, <2>2, <2>6, <3>1
    <2> QED
        BY <2>4, <2>5, <2>6
<1>8. ASSUME NEW p \in Node, ShareTranscript(p) \/ Crash(p) PROVE Same
    BY <1>2, <1>8 DEF ShareTranscript, Crash
<1>9. ASSUME UNCHANGED vars PROVE Same
    BY <1>2, <1>9 DEF vars, delphiVars
<1>10. Same \/ Instance(l)!Next
    BY <1>4, <1>5, <1>6, <1>7, <1>8, <1>9 DEF Next, Step
<1> QED
    BY <1>1, <1>10

\* AACS takes no more of any instance of Delphi than Outcome promises.
THEOREM TakesOutcomeHolds == Spec => TakesOutcome
<1>1. ASSUME NEW l \in Node PROVE Spec => Instance(l)!Spec
    <2>1. Init => Instance(l)!Init
        BY DEF Init, Instance!Init
    <2>2. ASSUME BaseInv, [Next]_vars PROVE [Instance(l)!Next]_(Instance(l)!vars)
        BY <2>2, InstanceStep DEF BaseInv
    <2> QED
        BY <2>1, <2>2, BaseInductive, PTL DEF Spec, Instance!Spec
<1> QED
    BY <1>1 DEF TakesOutcome
=============================================================================
