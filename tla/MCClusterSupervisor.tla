------------------------ MODULE MCClusterSupervisor ------------------------
(***************************************************************************)
(* ClusterSupervisor for TLC: constants are given in the configurations.   *)
(***************************************************************************)
EXTENDS ClusterSupervisor
=============================================================================
