--------------------------- MODULE MCServiceLine ---------------------------
(* Instances of one service line.  Processes are interchangeable.          *)
EXTENDS ServiceLine, TLC

CONSTANTS p1, p2

OneProc  == {p1}
TwoProcs == {p1, p2}

AllForms == Status
FewForms == {"pending", "active", "cancelled"}

Symmetry == Permutations(TwoProcs)
=============================================================================
