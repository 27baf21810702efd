------------------------- MODULE MCDistributedLock -------------------------
(***************************************************************************)
(* DistributedLock for TLC: constants are given in the configuration.      *)
(***************************************************************************)
EXTENDS DistributedLock
=============================================================================
