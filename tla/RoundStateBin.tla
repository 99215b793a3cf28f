--------------------------- MODULE RoundStateBin ---------------------------
(***************************************************************************)
(* One round of one binary approximate agreement (BinAA) instance of       *)
(* Delphi, as the pure operations of consensus/delphi roundvals_bin.rs.    *)
(*                                                                         *)
(* A round state is [slots, echo1vals, term]: one slot per distinct value  *)
(* heard of (the Vec `state`; the code never pushes a third one), the      *)
(* values this node sent ECHO2 for, and the termination value.  echo2vals, *)
(* start, end and level are written and never read, so they are left out.  *)
(***************************************************************************)
EXTENDS Integers, FiniteSets, Sequences

NoVal == -1            \* Option::None of a value; every value is a natural

NewSlot(v, e1, e2) ==
    [val |-> v, echo1 |-> e1, echo2 |-> e2, sent1 |-> FALSE, sent2 |-> FALSE]

NewWithEcho(v, sender) ==
    [slots |-> <<NewSlot(v, {sender}, {})>>, echo1vals |-> {}, term |-> NoVal]

NewWithEcho2(v, sender) ==
    [slots |-> <<NewSlot(v, {}, {sender})>>, echo1vals |-> {}, term |-> NoVal]

\* A round nothing has been heard of: no entry in the map of rounds.
NoState == [slots |-> <<>>, echo1vals |-> {}, term |-> NoVal]

Terminated(rs) == rs.term # NoVal

\* The slot a value is counted in: the first one if it holds that value, and
\* the second one for EVERY other value.
SlotOfFirst(rs, v) == 1
SlotOf(rs, v) == IF rs.slots[1].val = v THEN 1 ELSE 2

\* The integer midpoint of the two values ECHO2 was sent for.
MidpointFromHigh(vals) ==
    LET lo == CHOOSE x \in vals : \A y \in vals : x <= y
        hi == CHOOSE x \in vals : \A y \in vals : x >= y
    IN  hi + (hi - lo) \div 2
Midpoint(vals) ==
    LET lo == CHOOSE x \in vals : \A y \in vals : x <= y
        hi == CHOOSE x \in vals : \A y \in vals : x >= y
    IN  (lo + hi) \div 2

\* add_echo: the new round state and the values to ECHO1 and ECHO2 (NoVal for
\* none).  A second value only opens its slot: no threshold is looked at.
AddEcho(rs, v, sender, minth, highth) ==
    LET i     == SlotOf(rs, v)
        s     == [rs.slots[i] EXCEPT !.echo1 = @ \union {sender}]
        votes == Cardinality(s.echo1)
        vals  == rs.echo1vals \union {v}
        Quiet(new) == [rs |-> new, echo1 |-> NoVal, echo2 |-> NoVal]
    IN CASE Terminated(rs) -> Quiet(rs)
         [] ~Terminated(rs) /\ i > Len(rs.slots) ->
              Quiet([rs EXCEPT !.slots = Append(@, NewSlot(v, {sender}, {}))])
         [] ~Terminated(rs) /\ i <= Len(rs.slots) ->
              IF votes >= minth /\ ~s.sent1
              THEN [rs    |-> [rs EXCEPT !.slots[i] = [s EXCEPT !.sent1 = TRUE]],
                    echo1 |-> v, echo2 |-> NoVal]
              ELSE IF votes >= highth /\ ~s.sent2
              THEN [rs    |-> [slots     |-> [rs.slots EXCEPT
                                                ![i] = [s EXCEPT !.sent2 = TRUE]],
                               echo1vals |-> vals,
                               term      |-> IF Cardinality(vals) = 2
                                             THEN Midpoint(vals) ELSE rs.term],
                    echo1 |-> NoVal, echo2 |-> v]
              ELSE Quiet([rs EXCEPT !.slots[i] = s])

\* add_echo2: counts the vote; a quorum sets (or overwrites) the termination
\* value, whether the round had terminated or not.
AddEcho2(rs, v, sender, highth) ==
    LET i == SlotOf(rs, v)
        s == [rs.slots[i] EXCEPT !.echo2 = @ \union {sender}]
    IN  IF i > Len(rs.slots)
        THEN [rs EXCEPT !.slots = Append(@, NewSlot(v, {}, {sender}))]
        ELSE [rs EXCEPT !.slots[i] = s,
                        !.term = IF Cardinality(s.echo2) >= highth
                                 THEN s.val ELSE @]

\* Interval::add_echo and add_echo2: the first message of a round only creates its state.
HearEcho(rs, v, sender, minth, highth) ==
    IF rs = NoState
    THEN [rs |-> NewWithEcho(v, sender), echo1 |-> NoVal, echo2 |-> NoVal]
    ELSE AddEcho(rs, v, sender, minth, highth)

HearEcho2(rs, v, sender, highth) ==
    IF rs = NoState THEN NewWithEcho2(v, sender) ELSE AddEcho2(rs, v, sender, highth)
=============================================================================
