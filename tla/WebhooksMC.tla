----------------------------- MODULE WebhooksMC -----------------------------
(* Instances of Webhooks for TLC.                                          *)
EXTENDS Webhooks

\* server.go starts every dispatcher with the empty runner id.
SameRunner == [n \in Nodes |-> NoRunner]
=============================================================================
