---------------------------- MODULE MCEventOutbox ----------------------------
(***************************************************************************)
(* EventOutbox for TLC: constants are given in the configuration.          *)
(***************************************************************************)
EXTENDS EventOutbox
=============================================================================
