----------------------------- MODULE MCWebhookInbox -----------------------------
(* An instance of WebhookInbox for TLC: two requests of one user. *)
EXTENDS WebhookInbox, TLC

CONSTANT u1
OneUser == [a \in Operator |-> u1]
================================================================================
