---------------------------- MODULE MCReceivables ----------------------------
EXTENDS Receivables

p1 == "p1"
p2 == "p2"
MCAmount == [p \in {p1, p2} |-> IF p = p1 THEN 2 ELSE 1]
MCOneAmount == [p \in {p1} |-> 2]
MCTotal == [i \in {1, 2} |-> 3 - i]

\* Bound: a behaviour has crashes or an edit of an amount, not both.
CrashOrEdit == ~(crashed /\ edits > 0)
=============================================================================
