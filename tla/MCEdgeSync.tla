----------------------------- MODULE MCEdgeSync ----------------------------
(* Instance of EdgeSync for TLC. *)
EXTENDS EdgeSync, TLC

SlotSymmetry == Permutations(Slots)
============================================================================
