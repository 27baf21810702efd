---------------------------- MODULE MCCRMRefresh ----------------------------
(***************************************************************************)
(* CRMRefresh for TLC: constants are given in the configurations.          *)
(***************************************************************************)
EXTENDS CRMRefresh
=============================================================================
