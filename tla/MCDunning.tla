---------------------------- MODULE MCDunning ----------------------------
(* Two debtors and two rules that act on different days.                  *)
EXTENDS Dunning, TLC
CONSTANTS c1, c2

MCContract == {c1, c2}
MCDue == (c1 :> 0) @@ (c2 :> 0)
MCRule == {[after |-> 2, grace |-> 1, action |-> "walled_garden"],
           [after |-> 1, grace |-> 2, action |-> "auto_suspend"]}
=============================================================================
