-------------------------- MODULE MCWebhookOutbox --------------------------
(* One outbox row, two processes at a time, two endpoints.                 *)
EXTENDS WebhookOutbox, TLC

CONSTANTS p1, p2, a, b

MCProc == {p1, p2}
OneUrl == {a}
MCUrl  == {a, b}

Symmetry == Permutations(MCProc)
=============================================================================
