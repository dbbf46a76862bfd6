-------------------------- MODULE MCGatewayPayments --------------------------
(* Instances of GatewayPayments for TLC.                                   *)
EXTENDS GatewayPayments, TLC

OneInvoice == {1}
RefundThenFail == <<{"succeeded", "refunded"}, {"succeeded", "failed"}>>
OnePaid == <<{"succeeded"}>>
Symmetry == Permutations(Proc)
SameTotal == [i \in Invoice |-> 1]
=============================================================================
