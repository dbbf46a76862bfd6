-------------------------- MODULE DurableDelivery --------------------------
(***************************************************************************)
(* What an outbox row promises to whoever waits for it, without leases,    *)
(* sweeps, queues or crashes: docs/snmp-trap-forwarding.md, "Check the     *)
(* result".  A delivery is sent a bounded number of times, counts as       *)
(* delivered only if the destination accepted one of the requests, and     *)
(* once it is settled it stays as it is.  A request that is already on its *)
(* way is not recalled, so a send may come after the settlement.           *)
(***************************************************************************)
EXTENDS Naturals

CONSTANT Budget   \* requests a destination may get for one delivery

VARIABLES phase, sends, accepted

Settled == {"delivered", "failed", "cancelled"}

Init == phase = "none" /\ sends = 0 /\ accepted = FALSE

Queue == phase = "none" /\ phase' = "open" /\ UNCHANGED <<sends, accepted>>

Send ==
  /\ phase # "none" /\ sends < Budget
  /\ sends' = sends + 1
  /\ accepted' \in {accepted, TRUE}
  /\ UNCHANGED phase

Settle ==
  /\ phase = "open"
  /\ phase' \in Settled
  /\ phase' = "delivered" => accepted
  /\ UNCHANGED <<sends, accepted>>

Next == Queue \/ Send \/ Settle

Spec == Init /\ [][Next]_<<phase, sends, accepted>>
=============================================================================
