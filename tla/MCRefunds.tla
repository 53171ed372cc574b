----------------------------- MODULE MCRefunds -----------------------------
(* Instance of Refunds for TLC. *)
EXTENDS Refunds, TLC

KeySymmetry == Permutations(Keys)

MCRefunds == {1, 2}
MCAmounts == {1, 2}
MCCaptured == <<2>>
MCAmounts1 == {1}
MCCaptured1 == <<1>>
MCOneRefund == {1}
============================================================================
