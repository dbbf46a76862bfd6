---------------------------- MODULE MCTrapOutbox ----------------------------
(* One row, two interchangeable processes, a rule that names an address or *)
(* the registered webhook.                                                 *)
EXTENDS TrapOutbox, TLC

CONSTANTS p1, p2, a, b

MCProc   == {p1, p2}
MCDirect == {a}
MCUrl    == {b}

Symmetry == Permutations(MCProc)
=============================================================================
