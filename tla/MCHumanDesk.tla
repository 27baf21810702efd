----------------------------- MODULE MCHumanDesk -----------------------------
(***************************************************************************)
(* HumanDesk for TLC: constants are given in the configuration.  The calls *)
(* are alike, and the run checks no liveness.                              *)
(***************************************************************************)
EXTENDS HumanDesk, TLC

CallSymmetry == Permutations(Calls)
=============================================================================
