-------------------------- MODULE MCInboundPipeline --------------------------
(***************************************************************************)
(* InboundPipeline for TLC: constants are given in the configuration.  The *)
(* slots are alike, and the run checks no liveness.                        *)
(***************************************************************************)
EXTENDS InboundPipeline, TLC

SlotSymmetry == Permutations(Slots)
=============================================================================
