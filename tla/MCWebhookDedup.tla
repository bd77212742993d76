--------------------------- MODULE MCWebhookDedup ---------------------------
(* Instances of WebhookDedup behind WebhookVerification. *)
EXTENDS WebhookVerification, TLC

HandlerSymmetry == Permutations(Handlers)
=============================================================================
