----------------------------- MODULE MCWebhooks -----------------------------
(* Webhooks for TLC; the constants get their values in the .cfg files. *)
EXTENDS Webhooks
=============================================================================
