-------------------------- MODULE MCWebhookIngress --------------------------
(* Instances of WebhookIngress for TLC. *)
EXTENDS WebhookIngress, TLC

WorkerSymmetry == Permutations(Workers)
\* One fault at a time: crash and claim together are in the run with one update.
OneFault == crashes + steals + expiries <= 1
=============================================================================
