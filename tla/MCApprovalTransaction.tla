----------------------- MODULE MCApprovalTransaction -----------------------
(* ApprovalTransaction with two bodies; the bounds are in the .cfg files.   *)
EXTENDS ApprovalTransaction, TLC

Symmetry == Permutations(Bodies)
=============================================================================
