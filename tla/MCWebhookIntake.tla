--------------------------- MODULE MCWebhookIntake ---------------------------
(***************************************************************************)
(* WebhookIntake for TLC: constants are given in the configuration.        *)
(***************************************************************************)
EXTENDS WebhookIntake
=============================================================================
