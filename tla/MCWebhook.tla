------------------------------ MODULE MCWebhook ------------------------------
(***************************************************************************)
(* Small instances of WebhookDelivery for TLC.                                *)
(***************************************************************************)
EXTENDS WebhookDelivery
=============================================================================
