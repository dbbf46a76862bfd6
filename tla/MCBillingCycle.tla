-------------------------- MODULE MCBillingCycle ---------------------------
(* One contract that starts in the middle of a month; a cron worker and    *)
(* one other handler.                                                      *)
EXTENDS BillingCycle

CONSTANTS cron, p

TwoProcs == {cron, p}
=============================================================================
